---- MODULE Spec2Model ----
(***************************************************************************)
(* Model of the reading-assessment core of ThynkTech-Reading-model:        *)
(*   app/services/text_service.py        (TextService)                     *)
(*   app/services/evaluation_service.py  (EvaluationService)               *)
(*   app/api/routes.py                   (module-level service instances)  *)
(*                                                                         *)
(* A text is a sequence of one-character strings. A token is a non-empty   *)
(* sequence of non-whitespace characters.                                  *)
(* Python floats are modelled as exact rationals [num, den] (den = 0 for   *)
(* infinity); the inputs drawn are such that every comparison the code     *)
(* makes on the float has the outcome it has on the rational. get_grade,   *)
(* where rounding decides a band for whole percentages, is computed in     *)
(* IEEE-754 double arithmetic.                                             *)
(*                                                                         *)
(* Specifications:                                                         *)
(*   Spec      one compare_texts / get_word_order_accuracy / evaluate run  *)
(*   SpecEval  the EvaluationService methods called on given arguments     *)
(*   SpecNorm  normalize and tokenize on raw texts                         *)
(*   SpecConc  two requests interleaved on the shared services             *)
(***************************************************************************)
EXTENDS Integers, Naturals, Sequences, FiniteSets, TLC

\* ------------------------------------------------------------------ bounds
\* Longest student / reference token sequence drawn by Init.
MaxLen == 2
\* Largest word_count handed to evaluate.
MaxWordCount == 2
\* Largest word total in a comparison dictionary handed to evaluate directly.
MaxEvalWords == 2
\* Longest raw text handed to normalize and tokenize.
MaxRawLen == 3
\* Longest token sequence compared with and without fuzzy matching.
MaxPairLen == 3

\* Longest token sequence of a request that runs beside another one.
MaxConcLen == 1

\* ------------------------------------------------------------- rationals
Rat(n, d) == [num |-> n, den |-> d]
RatLt(a, b) == a.num * b.den < b.num * a.den
RatLeq(a, b) == a.num * b.den <= b.num * a.den
RatEq(a, b) == a.num * b.den = b.num * a.den
RatMin(a, b) == IF RatLeq(a, b) THEN a ELSE b
IntMin(a, b) == IF a <= b THEN a ELSE b
IntMax(a, b) == IF a >= b THEN a ELSE b

\* Python's None where a token is expected: no token holds this character.
None == <<"None">>

\* ------------------------------------------------------------ input sets
Vocabulary == { <<"a">>, <<"a", "b">>, <<"a", "b", "c">>, <<"c">> }
TokenSeqs == UNION { [1..n -> Vocabulary] : n \in 0..MaxLen }

RECURSIVE Join(_)
\* " ".join(tokens)
Join(ts) ==
    IF ts = <<>> THEN <<>>
    ELSE IF Len(ts) = 1 THEN ts[1]
    ELSE ts[1] \o <<" ">> \o Join(Tail(ts))

Texts == { Join(ts) : ts \in TokenSeqs }
Thresholds == {0, 50, 80, 100}
Durations == { Rat(0 - 1, 1), Rat(0, 1), Rat(1, 2), Rat(60, 1) }
WordCounts == 0..MaxWordCount

\* ------------------------------------------------------------------ state
VARIABLES
    fuzzy_threshold,      \* TextService.fuzzy_threshold
    student_text,         \* compare_texts arguments
    reference_text,
    use_fuzzy,
    pc,                   \* position of the caller, e.g. "start", "loop", "returned"
    student_tokens,       \* locals of compare_texts
    reference_tokens,
    loop_i,               \* student tokens the for loop has processed
    matched_words,
    exact_matches,
    fuzzy_matches,
    unmatched_student,
    match_details,
    reference_remaining,
    comparison_result,    \* the dictionary compare_texts returned
    order_accuracy,       \* get_word_order_accuracy's value
    audio_duration,       \* evaluate arguments
    word_count,
    evaluation_result,    \* the dictionary evaluate returned
    suspicious_wpm_threshold,  \* EvaluationService.suspicious_wpm_threshold
    fn_fluency,           \* arguments of the EvaluationService methods when
    fn_accuracy,          \* they are called directly, and what they returned
    fn_completeness,
    fn_flag,
    fn_suspicious,
    fn_category,
    fn_remarks,
    fn_grade,
    raw_text,             \* normalize / tokenize argument and return values
    normalized,
    renormalized,
    raw_tokens,
    norm_tokens,
    calls,                \* the two interleaved requests: locals of each call
    route_in,             \* assess_audio: each request's upload and chapter id
    route,                \* assess_audio: position and locals of each handler
    files,                \* temporary files that exist
    outcome,              \* how each assess_audio ended: response or exception
    chapters_file,        \* ChapterService: what the file at data_path holds
    chapters_cache,       \* ChapterService: _chapters_cache
    chapter_call,         \* ChapterService: the last call and what it returned
    text_service_instance,  \* text_service.py: _text_service_instance
    service_returns       \* what each get_text_service call returned

vars == << fuzzy_threshold, student_text, reference_text, use_fuzzy, pc,
           student_tokens, reference_tokens, loop_i, matched_words,
           exact_matches, fuzzy_matches, unmatched_student, match_details,
           reference_remaining, comparison_result, order_accuracy,
           audio_duration, word_count, evaluation_result,
           suspicious_wpm_threshold, fn_fluency, fn_accuracy, fn_completeness,
           fn_flag, fn_suspicious, fn_category, fn_remarks, fn_grade,
           raw_text, normalized, renormalized, raw_tokens, norm_tokens, calls,
           route_in, route, files, outcome, chapters_file, chapters_cache,
           chapter_call, text_service_instance, service_returns >>

inputs == << fuzzy_threshold, student_text, reference_text, use_fuzzy >>
locals == << student_tokens, reference_tokens, loop_i, matched_words,
             exact_matches, fuzzy_matches, unmatched_student, match_details,
             reference_remaining >>
evals == << audio_duration, word_count, evaluation_result >>
fns == << fn_fluency, fn_accuracy, fn_completeness, fn_flag, fn_suspicious,
          fn_category, fn_remarks, fn_grade >>
norms == << raw_text, normalized, renormalized, raw_tokens, norm_tokens >>
\* What one compare_texts / evaluate request leaves alone.
routes == << route_in, route, files, outcome >>
\* What the services' methods called on their own leave alone.
stores == << chapters_file, chapters_cache, chapter_call >>
singles == << text_service_instance, service_returns >>
apart == << routes, stores, singles >>
aside == << suspicious_wpm_threshold, fns, norms, calls, apart >>

\* ------------------------------------------------------------ TextService
\* Characters Python's \s, str.split() and str.strip() treat as whitespace.
WhitespaceChars == {" ", "\t", "\n", "\r", "\f"}
IsSpace(c) == c \in WhitespaceChars

\* string.punctuation without the apostrophe (chr(39)); the grave accent,
\* which no TLA+ string can hold, is left out.
PunctuationChars ==
    {"!", "\"", "#", "$", "%", "&", "(", ")", "*", "+", ",", "-", ".", "/",
     ":", ";", "<", "=", ">", "?", "@", "[", "\\", "]", "^", "_", "{",
     "|", "}", "~"}
IsPunct(c) == c \in PunctuationChars

\* str.lower() on one character of the alphabet used here.
LowerCase == [A |-> "a", B |-> "b", C |-> "c"]
Lower(c) == IF c \in DOMAIN LowerCase THEN LowerCase[c] ELSE c
IsUpper(c) == c \in DOMAIN LowerCase
IsLetter(c) == c \in DOMAIN LowerCase \/ c \in {"a", "b", "c"}

\* text.lower()
LowerText(text) == [k \in 1..Len(text) |-> Lower(text[k])]

PunctuationSub_apostrophe_too(text) ==
    [k \in 1..Len(text) |->
        IF IsPunct(text[k]) \/ text[k] = "'" THEN " " ELSE text[k]]
\* punctuation_pattern.sub(' ', text): every punctuation character becomes
\* a space.
PunctuationSub(text) ==
    [k \in 1..Len(text) |-> IF IsPunct(text[k]) THEN " " ELSE text[k]]

RECURSIVE WhitespaceSub(_, _)
\* whitespace_pattern.sub(' ', text): every maximal run of whitespace
\* becomes one space.
WhitespaceSub(text, k) ==
    IF k > Len(text) THEN <<>>
    ELSE IF IsSpace(text[k])
         THEN IF k > 1 /\ IsSpace(text[k - 1])
              THEN WhitespaceSub(text, k + 1)
              ELSE <<" ">> \o WhitespaceSub(text, k + 1)
         ELSE <<text[k]>> \o WhitespaceSub(text, k + 1)

\* text.strip(): leading and trailing whitespace removed.
Strip(text) ==
    LET kept == {k \in 1..Len(text) : ~IsSpace(text[k])}
    IN  IF kept = {} THEN <<>>
        ELSE LET first == CHOOSE k \in kept : \A j \in kept : k <= j
                 last == CHOOSE k \in kept : \A j \in kept : j <= k
             IN  SubSeq(text, first, last)

normalize_strip_first(text) ==
    IF text = None \/ text = <<>> THEN <<>>
    ELSE WhitespaceSub(PunctuationSub(Strip(LowerText(text))), 1)
normalize(text) ==
    IF text = None \/ text = <<>> THEN <<>>
    ELSE Strip(WhitespaceSub(PunctuationSub(LowerText(text)), 1))

RECURSIVE Split_at_blank_only(_, _, _)
Split_at_blank_only(text, k, word) ==
    IF k > Len(text)
    THEN IF word = <<>> THEN <<>> ELSE <<word>>
    ELSE IF text[k] = " "
         THEN IF word = <<>>
              THEN Split_at_blank_only(text, k + 1, <<>>)
              ELSE <<word>> \o Split_at_blank_only(text, k + 1, <<>>)
         ELSE Split_at_blank_only(text, k + 1, Append(word, text[k]))
RECURSIVE Split(_, _, _)
\* str.split(): cut at whitespace, empty fragments dropped.
Split(text, k, word) ==
    IF k > Len(text)
    THEN IF word = <<>> THEN <<>> ELSE <<word>>
    ELSE IF IsSpace(text[k])
         THEN IF word = <<>>
              THEN Split(text, k + 1, <<>>)
              ELSE <<word>> \o Split(text, k + 1, <<>>)
         ELSE Split(text, k + 1, Append(word, text[k]))

tokenize(text) ==
    IF text = None \/ text = <<>> THEN <<>>
    ELSE LET words == Split(text, 1, <<>>)
         IN  SelectSeq(words, LAMBDA w : w # <<>>)

\* rapidfuzz Indel similarity: length of the longest common subsequence of
\* the two tokens' characters.
LcsChars(s1, s2) ==
    LET t[i \in 0..Len(s1), j \in 0..Len(s2)] ==
            IF i = 0 \/ j = 0 THEN 0
            ELSE IF s1[i] = s2[j] THEN t[i - 1, j - 1] + 1
            ELSE IntMax(t[i - 1, j], t[i, j - 1])
    IN  t[Len(s1), Len(s2)]

\* fuzz.ratio(s1, s2) = 100 * (1 - indel_distance / (len1 + len2))
\*                    = 200 * lcs / (len1 + len2); 100 for two empty strings.
\* The value is kept as an exact rational; for the tokens of Vocabulary the
\* float rapidfuzz returns compares with 0, 50, 80 and 100 as the rational
\* does.
fuzz_ratio(s1, s2) ==
    IF Len(s1) + Len(s2) = 0 THEN Rat(100, 1)
    ELSE Rat(200 * LcsChars(s1, s2), Len(s1) + Len(s2))

InList_first_only(x, list) == list # <<>> /\ list[1] = x
\* x in list
InList(x, list) == \E k \in 1..Len(list) : list[k] = x

ListRemoveAll(list, x) == SelectSeq(list, LAMBDA y : y # x)
ListRemoveNone(list, x) == list
\* list.remove(x): the first occurrence of x is removed (x is in the list).
ListRemove(list, x) ==
    LET k == CHOOSE k \in 1..Len(list) :
                 list[k] = x /\ \A j \in 1..(k - 1) : list[j] # x
    IN  SubSeq(list, 1, k - 1) \o SubSeq(list, k + 1, Len(list))

\* list.pop(idx) for a 0-based idx; a negative idx counts from the end.
PopIndex(list, idx) == IF idx < 0 THEN idx + Len(list) ELSE idx
PopRaises(list, idx) ==
    PopIndex(list, idx) < 0 \/ PopIndex(list, idx) >= Len(list)
ListPop_nothing(list, idx) == list
ListPop_through(list, idx) == SubSeq(list, 1, PopIndex(list, idx))

ListPop(list, idx) ==
    LET k == PopIndex(list, idx) + 1
    IN  SubSeq(list, 1, k - 1) \o SubSeq(list, k + 1, Len(list))

RECURSIVE FuzzyScan(_, _, _, _)
\* The scan over enumerate(reference_remaining); idx is 0-based.
FuzzyScan(student_word, pool, idx, best) ==
    IF idx >= Len(pool) THEN best
    ELSE LET ref_word == pool[idx + 1]
             score == fuzz_ratio(student_word, ref_word)
         IN  IF RatLt(best.best_score, score)
             THEN FuzzyScan(student_word, pool, idx + 1,
                            [best_match |-> ref_word, best_score |-> score,
                             best_idx |-> idx])
             ELSE FuzzyScan(student_word, pool, idx + 1, best)

BestFuzzy(student_word, pool) ==
    FuzzyScan(student_word, pool, 0,
              [best_match |-> None, best_score |-> Rat(0, 1), best_idx |-> 0 - 1])

lcs_upper_neighbour_only(seq1, seq2) ==
    LET m == Len(seq1)
        n == Len(seq2)
        dp[i \in 0..m, j \in 0..n] ==
            IF i = 0 \/ j = 0 THEN 0
            ELSE IF seq1[i] = seq2[j] THEN dp[i - 1, j - 1] + 1
            ELSE dp[i - 1, j]
    IN  dp[m, n]
\* _longest_common_subsequence: the (m+1) x (n+1) table, row by row.
longest_common_subsequence(seq1, seq2) ==
    LET m == Len(seq1)
        n == Len(seq2)
        dp[i \in 0..m, j \in 0..n] ==
            IF i = 0 \/ j = 0 THEN 0
            ELSE IF seq1[i] = seq2[j] THEN dp[i - 1, j - 1] + 1
            ELSE IntMax(dp[i - 1, j], dp[i, j - 1])
    IN  dp[m, n]

get_word_order_accuracy(s_tokens, r_tokens) ==
    IF s_tokens = <<>> \/ r_tokens = <<>> THEN Rat(0, 1)
    ELSE LET lcs_length == longest_common_subsequence(s_tokens, r_tokens)
             max_possible == IntMin(Len(s_tokens), Len(r_tokens))
         IN  IF max_possible = 0 THEN Rat(0, 1)
             ELSE Rat(lcs_length * 100, max_possible)

\* ------------------------------------------------------ EvaluationService
\* Default of suspicious_wpm_threshold.
SuspiciousWpmThreshold == 250
AccuracyExcellent == 90
AccuracyGood == 75
AccuracyAverage == 60
AccuracyNeedsImprovement == 40
CompletenessPartial == 50
CompletenessMost == 80

\* float('inf'): under the cross-multiplied comparisons it is above every
\* finite value and neither below nor above itself.
Infinity == Rat(1, 0)

\* WPM_RANGES in dictionary order, (low, high) per category.
WPM_RANGES ==
    << [category |-> "very_slow",  low |-> Rat(0, 1),   high |-> Rat(60, 1)],
       [category |-> "slow",       low |-> Rat(60, 1),  high |-> Rat(100, 1)],
       [category |-> "normal",     low |-> Rat(100, 1), high |-> Rat(160, 1)],
       [category |-> "fast",       low |-> Rat(160, 1), high |-> Rat(200, 1)],
       [category |-> "very_fast",  low |-> Rat(200, 1), high |-> Rat(250, 1)],
       [category |-> "suspicious", low |-> Rat(250, 1), high |-> Infinity] >>

calculate_accuracy_fraction(matched, total_student) ==
    IF total_student = 0 THEN Rat(0, 1)
    ELSE RatMin(Rat(100, 1), Rat(matched, total_student))
\* (matched_words / total_student_words) * 100, capped at 100.
calculate_accuracy(matched, total_student) ==
    IF total_student = 0 THEN Rat(0, 1)
    ELSE RatMin(Rat(100, 1), Rat(matched * 100, total_student))

calculate_completeness(matched, total_reference) ==
    IF total_reference = 0 THEN Rat(0, 1)
    ELSE RatMin(Rat(100, 1), Rat(matched * 100, total_reference))

calculate_fluency_zero_guard_only(wc, duration) ==
    IF duration.num = 0 THEN Rat(0, 1)
    ELSE IF duration.num < 0
         THEN Rat(0 - (wc * duration.den * 60), 0 - duration.num)
         ELSE Rat(wc * duration.den * 60, duration.num)
\* (word_count / audio_duration) * 60 for a duration num/den.
calculate_fluency(wc, duration) ==
    IF duration.num <= 0 THEN Rat(0, 1)
    ELSE Rat(wc * duration.den * 60, duration.num)

detect_suspicious_reading_from_threshold(fluency_wpm) ==
    RatLeq(Rat(suspicious_wpm_threshold, 1), fluency_wpm)
\* fluency_wpm > self.suspicious_wpm_threshold
detect_suspicious_reading(fluency_wpm) ==
    RatLt(Rat(suspicious_wpm_threshold, 1), fluency_wpm)

InRange_closed(r, fluency_wpm) ==
    RatLeq(r.low, fluency_wpm) /\ RatLeq(fluency_wpm, r.high)
\* low <= fluency_wpm < high
InRange(r, fluency_wpm) ==
    RatLeq(r.low, fluency_wpm) /\ RatLt(fluency_wpm, r.high)

categorize_speed(fluency_wpm) ==
    IF \E k \in 1..Len(WPM_RANGES) : InRange(WPM_RANGES[k], fluency_wpm)
    THEN LET k == CHOOSE k \in 1..Len(WPM_RANGES) :
                      /\ InRange(WPM_RANGES[k], fluency_wpm)
                      /\ \A j \in 1..(k - 1) : ~InRange(WPM_RANGES[j], fluency_wpm)
         IN  WPM_RANGES[k].category
    ELSE "unknown"

\* The warning of generate_remarks, without its leading warning-sign
\* character.
SuspiciousWarning ==
    "Warning: Reading speed is unusually fast. This may indicate the audio was played back at increased speed."

AccuracyRemark(accuracy) ==
    IF RatLeq(Rat(AccuracyExcellent, 1), accuracy)
    THEN "Excellent accuracy! Words are pronounced correctly."
    ELSE IF RatLeq(Rat(AccuracyGood, 1), accuracy)
    THEN "Good reading performance."
    ELSE IF RatLeq(Rat(AccuracyAverage, 1), accuracy)
    THEN "Average performance. Practice pronunciation."
    ELSE IF RatLeq(Rat(AccuracyNeedsImprovement, 1), accuracy)
    THEN "Needs improvement. Focus on reading clearly."
    ELSE "Significant improvement needed. Practice reading aloud."

CompletenessRemark(completeness) ==
    IF RatLt(completeness, Rat(CompletenessPartial, 1))
    THEN "Only partial text was read."
    ELSE IF RatLt(completeness, Rat(CompletenessMost, 1))
    THEN "Most of the text was covered."
    ELSE "Good coverage of the reference text."

SpeedRemark(speed_category) ==
    IF speed_category = "very_slow"
    THEN <<"Reading pace is slow. Try to read more fluently.">>
    ELSE IF speed_category = "slow"
    THEN <<"Reading pace is slightly slow.">>
    ELSE IF speed_category = "normal"
    THEN <<"Reading pace is appropriate.">>
    ELSE IF speed_category = "fast"
    THEN <<"Good fluent reading pace!">>
    ELSE IF speed_category = "very_fast"
    THEN <<"Very fast reading. Ensure clarity isn't sacrificed for speed.">>
    ELSE <<>>

RemarksParts_speed_first(accuracy, completeness, fluency_wpm, is_suspicious) ==
    (IF is_suspicious THEN <<SuspiciousWarning>> ELSE <<>>)
    \o SpeedRemark(categorize_speed(fluency_wpm))
    \o <<AccuracyRemark(accuracy)>>
    \o <<CompletenessRemark(completeness)>>
\* remarks_parts, in the order generate_remarks appends them.
RemarksParts(accuracy, completeness, fluency_wpm, is_suspicious) ==
    (IF is_suspicious THEN <<SuspiciousWarning>> ELSE <<>>)
    \o <<AccuracyRemark(accuracy)>>
    \o <<CompletenessRemark(completeness)>>
    \o SpeedRemark(categorize_speed(fluency_wpm))

RECURSIVE JoinParts(_)
\* " ".join(remarks_parts)
JoinParts(parts) ==
    IF parts = <<>> THEN ""
    ELSE IF Len(parts) = 1 THEN parts[1]
    ELSE parts[1] \o " " \o JoinParts(Tail(parts))

generate_remarks(accuracy, completeness, fluency_wpm, is_suspicious) ==
    JoinParts(RemarksParts(accuracy, completeness, fluency_wpm, is_suspicious))

\* ---- IEEE-754 doubles for get_grade, where rounding decides the band.
\* A natural number is its sequence of digits to the base 4096, least
\* significant first, the last digit not 0 (<<>> is 0). A double is
\* m * 2^e for such an m of at most 53 bits.
DigitBits == 12
Base == 2 ^ DigitBits

RECURSIVE BigOfNat(_)
BigOfNat(n) == IF n = 0 THEN <<>> ELSE <<n % Base>> \o BigOfNat(n \div Base)

RECURSIVE BigAdd(_, _, _)
BigAdd(x, y, carry) ==
    IF x = <<>> /\ y = <<>>
    THEN BigOfNat(carry)
    ELSE LET a == IF x = <<>> THEN 0 ELSE x[1]
             b == IF y = <<>> THEN 0 ELSE y[1]
             sum == a + b + carry
         IN  <<sum % Base>> \o BigAdd(IF x = <<>> THEN <<>> ELSE Tail(x),
                                      IF y = <<>> THEN <<>> ELSE Tail(y),
                                      sum \div Base)

RECURSIVE BigMulDigit(_, _, _)
\* x * d + carry for one digit d
BigMulDigit(x, d, carry) ==
    IF x = <<>> THEN BigOfNat(carry)
    ELSE LET product == x[1] * d + carry
         IN  IF d = 0 THEN <<>>
             ELSE <<product % Base>> \o BigMulDigit(Tail(x), d, product \div Base)

\* x * Base^k
BigShiftDigits(x, k) == IF x = <<>> THEN <<>> ELSE [i \in 1..k |-> 0] \o x

RECURSIVE BigMul(_, _)
BigMul(x, y) ==
    IF y = <<>> THEN <<>>
    ELSE BigAdd(BigMulDigit(x, y[1], 0), BigShiftDigits(BigMul(x, Tail(y)), 1), 0)

\* x * 2^k
BigShiftLeft(x, k) ==
    BigShiftDigits(BigMulDigit(x, 2 ^ (k % DigitBits), 0), k \div DigitBits)

\* Bit j (from 0) of x.
BigBit(x, j) ==
    IF j \div DigitBits >= Len(x) THEN 0
    ELSE (x[(j \div DigitBits) + 1] \div (2 ^ (j % DigitBits))) % 2

\* Number of bits of x.
BigBitLength(x) ==
    IF x = <<>> THEN 0
    ELSE LET top == x[Len(x)]
         IN  DigitBits * (Len(x) - 1)
             + (CHOOSE k \in 1..DigitBits : 2 ^ (k - 1) <= top /\ top < 2 ^ k)

\* x \div 2^k
BigShiftRight(x, k) ==
    LET q == k \div DigitBits
        r == k % DigitBits
        n == Len(x) - q
        digit(i) == IF i > Len(x) THEN 0 ELSE x[i]
        shifted == [i \in 1..n |->
                       (digit(i + q) \div (2 ^ r))
                       + (digit(i + q + 1) % (2 ^ r)) * (2 ^ (DigitBits - r))]
    IN  IF n <= 0 THEN <<>>
        ELSE IF shifted[n] = 0 THEN SubSeq(shifted, 1, n - 1)
        ELSE shifted

\* x < y
BigLess(x, y) ==
    \/ Len(x) < Len(y)
    \/ /\ Len(x) = Len(y)
       /\ \E k \in 1..Len(x) :
             /\ x[k] < y[k]
             /\ \A j \in (k + 1)..Len(x) : x[j] = y[j]

\* The double nearest to x * 2^e, ties to the even mantissa.
DoubleRound(x, e) ==
    IF BigBitLength(x) <= 53 THEN [m |-> x, e |-> e]
    ELSE LET drop == BigBitLength(x) - 53
             kept == BigShiftRight(x, drop)
             half == BigBit(x, drop - 1) = 1
             sticky == \E j \in 0..(drop - 2) : BigBit(x, j) = 1
             up == half /\ (sticky \/ BigBit(kept, 0) = 1)
             rounded == IF up THEN BigAdd(kept, <<1>>, 0) ELSE kept
         IN  IF BigBitLength(rounded) > 53
             THEN [m |-> BigShiftRight(rounded, 1), e |-> e + drop + 1]
             ELSE [m |-> rounded, e |-> e + drop]

\* float(n) for an integer 0 <= n < 2^31
DoubleOfInt(n) == [m |-> BigOfNat(n), e |-> 0]

RECURSIVE BigOfHex(_)
\* The value of a hexadecimal numeral, most significant digit first.
BigOfHex(digits) ==
    IF digits = <<>> THEN <<>>
    ELSE BigMulDigit(BigOfHex(SubSeq(digits, 1, Len(digits) - 1)), 16,
                     digits[Len(digits)])

\* The literals 0.6 = 0x1.3333333333333p-1 and 0.4 = 0x1.999999999999ap-2.
Double_0_6 ==
    [m |-> BigOfHex(<<1, 3, 3, 3, 3, 3, 3, 3, 3, 3, 3, 3, 3, 3>>), e |-> 0 - 53]
Double_0_4 ==
    [m |-> BigOfHex(<<1, 9, 9, 9, 9, 9, 9, 9, 9, 9, 9, 9, 9, 10>>), e |-> 0 - 54]

\* a * b in double arithmetic (non-negative operands)
DoubleMul(a, b) ==
    IF a.m = <<>> \/ b.m = <<>> THEN DoubleOfInt(0)
    ELSE DoubleRound(BigMul(a.m, b.m), a.e + b.e)

\* a + b in double arithmetic (non-negative operands)
DoubleAdd(a, b) ==
    LET e == IntMin(a.e, b.e)
    IN  DoubleRound(BigAdd(BigShiftLeft(a.m, a.e - e),
                           BigShiftLeft(b.m, b.e - e), 0), e)

\* x >= n for a double x and an integer n >= 0
DoubleGeqInt(x, n) ==
    LET e == IntMin(x.e, 0)
    IN  ~BigLess(BigShiftLeft(x.m, x.e - e), BigShiftLeft(BigOfNat(n), 0 - e))

\* get_grade on integer-valued accuracy and completeness.
get_grade(accuracy, completeness) ==
    LET overall_score ==
            DoubleAdd(DoubleMul(DoubleOfInt(accuracy), Double_0_6),
                      DoubleMul(DoubleOfInt(completeness), Double_0_4))
    IN  IF DoubleGeqInt(overall_score, 90) THEN "A"
        ELSE IF DoubleGeqInt(overall_score, 80) THEN "B"
        ELSE IF DoubleGeqInt(overall_score, 70) THEN "C"
        ELSE IF DoubleGeqInt(overall_score, 60) THEN "D"
        ELSE "F"

evaluate(result, duration, wc) ==
    LET accuracy == calculate_accuracy(result.matched_words,
                                       result.total_student_words)
        completeness == calculate_completeness(result.matched_words,
                                               result.total_reference_words)
        fluency_wpm == calculate_fluency(wc, duration)
        is_suspicious == detect_suspicious_reading(fluency_wpm)
    IN  [accuracy |-> accuracy,
         completeness |-> completeness,
         fluency_wpm |-> fluency_wpm,
         remarks |-> generate_remarks(accuracy, completeness, fluency_wpm,
                                      is_suspicious),
         suspicious |-> is_suspicious,
         breakdown |->
            [matched_words |-> result.matched_words,
             total_student_words |-> result.total_student_words,
             total_reference_words |-> result.total_reference_words,
             exact_match_count |-> Len(result.exact_matches),
             fuzzy_match_count |-> Len(result.fuzzy_matches),
             reading_speed_category |-> categorize_speed(fluency_wpm)]]

\* The result dictionary built at the return statement.
ResultDict ==
    [matched_words |-> matched_words,
     total_student_words |-> Len(student_tokens),
     total_reference_words |-> Len(reference_tokens),
     exact_matches |-> exact_matches,
     fuzzy_matches |-> fuzzy_matches,
     unmatched_student |-> unmatched_student,
     unmatched_reference |-> reference_remaining,
     match_details |-> match_details]

NoResult ==
    [matched_words |-> 0, total_student_words |-> 0,
     total_reference_words |-> 0, exact_matches |-> <<>>,
     fuzzy_matches |-> <<>>, unmatched_student |-> <<>>,
     unmatched_reference |-> <<>>, match_details |-> <<>>]

NoEvaluation ==
    [accuracy |-> Rat(0, 1), completeness |-> Rat(0, 1),
     fluency_wpm |-> Rat(0, 1), remarks |-> "", suspicious |-> FALSE,
     breakdown |-> [matched_words |-> 0, total_student_words |-> 0,
                    total_reference_words |-> 0, exact_match_count |-> 0,
                    fuzzy_match_count |-> 0,
                    reading_speed_category |-> "unknown"]]

\* No EvaluationService method has been called directly.
FnIdle ==
    /\ fn_fluency = Rat(0, 1)
    /\ fn_accuracy = 0
    /\ fn_completeness = 0
    /\ fn_flag = FALSE
    /\ fn_suspicious = FALSE
    /\ fn_category = "unknown"
    /\ fn_remarks = ""
    /\ fn_grade = ""

\* normalize and tokenize have not been called on a raw text.
NormIdle ==
    /\ raw_text = <<>>
    /\ normalized = <<>>
    /\ renormalized = <<>>
    /\ raw_tokens = <<>>
    /\ norm_tokens = <<>>

\* No interleaved requests are under way.
CallsIdle == calls = <<>>

\* The requests assess_audio handles.
Requests == {1, 2}
\* No upload is being handled.
NoUpload == [filename |-> <<>>, chapter_id |-> "", content |-> ""]
NoOutcome == [kind |-> "none", status_code |-> 0, detail |-> ""]
\* get_duration's return value: None, or a number of seconds.
NoDuration == [none |-> TRUE, seconds |-> Rat(0, 1)]
Seconds(d) == [none |-> FALSE, seconds |-> d]
\* The locals of assess_audio when the handler is entered.
NewRoute ==
    [pc |-> "check_filename", file_extension |-> <<>>, reference_text |-> None,
     temp_file |-> "None", temp_file_path |-> "unbound",
     processed_audio_path |-> "unbound", audio_duration |-> NoDuration,
     transcript |-> <<>>, normalized_transcript |-> <<>>,
     normalized_reference |-> <<>>, comparison_result |-> NoResult,
     evaluation_result |-> NoEvaluation, stages |-> <<>>,
     pending |-> NoOutcome]
NoRoute == [NewRoute EXCEPT !.pc = "idle"]
RouteIdle ==
    /\ route_in = [r \in Requests |-> NoUpload]
    /\ route = [r \in Requests |-> NoRoute]
    /\ files = {}
    /\ outcome = [r \in Requests |-> NoOutcome]

\* A dict of chapters is the sequence of its items in insertion order, one
\* item for each key.
Chapter(chapter_id, title, text) ==
    [id |-> chapter_id, title |-> title, text |-> text]
Item(key, value) == [key |-> key, value |-> value]
NoChapters == <<>>
\* The file at data_path: missing, holding a JSON document with the chapters,
\* or holding text that is not a JSON document.
ChaptersFile(chapters) == [state |-> "valid", chapters |-> chapters]
MissingFile == [state |-> "missing", chapters |-> NoChapters]
CorruptFile == [state |-> "corrupt", chapters |-> NoChapters]
\* _chapters_cache: None, or the dict loaded.
NoCache == [none |-> TRUE, chapters |-> NoChapters]
Cached(chapters) == [none |-> FALSE, chapters |-> chapters]
\* What a call returned: a bool, a str or None, a chapter dict, a list of
\* summaries, or the exception it raised.
ReturnValue(kind) ==
    [kind |-> kind, bool |-> FALSE, text |-> <<>>,
     chapter |-> Chapter("", "", <<>>), listing |-> <<>>, exception |-> ""]
NoChapterCall == [op |-> "none", chapter_id |-> "", returned |-> ReturnValue("none")]
ChapterIdle ==
    /\ chapters_file = MissingFile
    /\ chapters_cache = NoCache
    /\ chapter_call = NoChapterCall

\* _text_service_instance: None, or the TextService constructed.
NoInstance == [none |-> TRUE, id |-> 0, fuzzy_threshold |-> 0]
SingletonIdle ==
    /\ text_service_instance = NoInstance
    /\ service_returns = <<>>

ApartIdle == RouteIdle /\ ChapterIdle /\ SingletonIdle

\* The locals and results of a compare_texts / evaluate request not started.
RequestIdle ==
    /\ student_tokens = <<>>
    /\ reference_tokens = <<>>
    /\ loop_i = 0
    /\ matched_words = 0
    /\ exact_matches = <<>>
    /\ fuzzy_matches = <<>>
    /\ unmatched_student = <<>>
    /\ match_details = <<>>
    /\ reference_remaining = <<>>
    /\ comparison_result = NoResult
    /\ order_accuracy = Rat(0, 1)
    /\ audio_duration = Rat(0, 1)
    /\ word_count = 0
    /\ evaluation_result = NoEvaluation

\* One request on services built as routes.py builds the evaluation
\* service (default suspicious threshold), for every fuzzy threshold.
Init ==
    /\ fuzzy_threshold \in Thresholds
    /\ student_text \in Texts
    /\ reference_text \in Texts
    /\ use_fuzzy \in BOOLEAN
    /\ pc = "start"
    /\ RequestIdle
    /\ suspicious_wpm_threshold = SuspiciousWpmThreshold
    /\ FnIdle
    /\ NormIdle
    /\ ApartIdle
    /\ CallsIdle

\* compare_texts, up to the for loop: tokenize both texts, copy the reference.
CompareBegin ==
    /\ pc = "start"
    /\ student_tokens' = tokenize(student_text)
    /\ reference_tokens' = tokenize(reference_text)
    /\ matched_words' = 0
    /\ exact_matches' = <<>>
    /\ fuzzy_matches' = <<>>
    /\ unmatched_student' = <<>>
    /\ match_details' = <<>>
    /\ reference_remaining' = tokenize(reference_text)
    /\ loop_i' = 0
    /\ pc' = "loop"
    /\ UNCHANGED << aside, inputs, comparison_result, order_accuracy, evals >>

InLoop == pc = "loop" /\ loop_i < Len(student_tokens)
student_word == student_tokens[loop_i + 1]

TrackUnmatchedAlways(unmatched, match_found, word) == Append(unmatched, word)
TrackUnmatched_forgets(unmatched, match_found, word) ==
    IF ~match_found THEN Append(unmatched, word) ELSE <<>>

\* if not match_found: unmatched_student.append(student_word)
TrackUnmatched(unmatched, match_found, word) ==
    IF ~match_found THEN Append(unmatched, word) ELSE unmatched

Detail(word, found, type, ref_word, score) ==
    [student_word |-> word, matched |-> found, match_type |-> type,
     reference_word |-> ref_word, score |-> score]

\* One iteration: the student word is in the pool.
StepExact ==
    /\ InLoop
    /\ InList(student_word, reference_remaining)
    /\ reference_remaining' = ListRemove(reference_remaining, student_word)
    /\ exact_matches' = Append(exact_matches, student_word)
    /\ matched_words' = matched_words + 1
    /\ match_details' = Append(match_details,
           Detail(student_word, TRUE, "exact", student_word, Rat(100, 1)))
    /\ unmatched_student' = TrackUnmatched(unmatched_student, TRUE, student_word)
    /\ loop_i' = loop_i + 1
    /\ UNCHANGED << aside, inputs, pc, student_tokens, reference_tokens, fuzzy_matches,
                    comparison_result, order_accuracy, evals >>

FuzzyAccepted_without_flag ==
    /\ ~InList(student_word, reference_remaining)
    /\ RatLeq(Rat(fuzzy_threshold, 1),
              BestFuzzy(student_word, reference_remaining).best_score)

FuzzyAccepted ==
    /\ ~InList(student_word, reference_remaining)
    /\ use_fuzzy
    /\ RatLeq(Rat(fuzzy_threshold, 1),
              BestFuzzy(student_word, reference_remaining).best_score)

\* One iteration: no exact match, the best score reaches the threshold and
\* reference_remaining.pop(best_idx) succeeds.
StepFuzzy ==
    /\ InLoop
    /\ FuzzyAccepted
    /\ LET best == BestFuzzy(student_word, reference_remaining)
       IN  /\ ~PopRaises(reference_remaining, best.best_idx)
           /\ reference_remaining' = ListPop(reference_remaining, best.best_idx)
           /\ fuzzy_matches' = Append(fuzzy_matches,
                  << student_word, best.best_match, best.best_score >>)
           /\ matched_words' = matched_words + 1
           /\ match_details' = Append(match_details,
                  Detail(student_word, TRUE, "fuzzy", best.best_match,
                         best.best_score))
    /\ unmatched_student' = TrackUnmatched(unmatched_student, TRUE, student_word)
    /\ loop_i' = loop_i + 1
    /\ UNCHANGED << aside, inputs, pc, student_tokens, reference_tokens, exact_matches,
                    comparison_result, order_accuracy, evals >>

\* One iteration: reference_remaining.pop(best_idx) raises IndexError, which
\* leaves compare_texts.
StepFuzzyRaise ==
    /\ InLoop
    /\ FuzzyAccepted
    /\ PopRaises(reference_remaining,
                 BestFuzzy(student_word, reference_remaining).best_idx)
    /\ pc' = "raised"
    /\ UNCHANGED << aside, inputs, locals, comparison_result, order_accuracy, evals >>

\* One iteration: neither an exact nor an accepted fuzzy match.
StepUnmatched ==
    /\ InLoop
    /\ ~InList(student_word, reference_remaining)
    /\ ~FuzzyAccepted
    /\ unmatched_student' = TrackUnmatched(unmatched_student, FALSE, student_word)
    /\ match_details' = Append(match_details,
           Detail(student_word, FALSE, "None", None, Rat(0, 1)))
    /\ loop_i' = loop_i + 1
    /\ UNCHANGED << aside, inputs, pc, student_tokens, reference_tokens, matched_words,
                    exact_matches, fuzzy_matches, reference_remaining,
                    comparison_result, order_accuracy, evals >>

\* The loop is over: compare_texts returns its dictionary.
CompareReturn ==
    /\ pc = "loop"
    /\ loop_i = Len(student_tokens)
    /\ comparison_result' = ResultDict
    /\ pc' = "returned"
    /\ UNCHANGED << aside, inputs, locals, order_accuracy, evals >>

\* get_word_order_accuracy on the two token lists.
OrderAccuracy ==
    /\ pc = "returned"
    /\ order_accuracy' = get_word_order_accuracy(student_tokens, reference_tokens)
    /\ pc' = "ordered"
    /\ UNCHANGED << aside, inputs, locals, comparison_result, evals >>

\* evaluate(comparison_result, audio_duration, word_count).
Evaluate ==
    /\ pc = "ordered"
    /\ \E d \in Durations, wc \in WordCounts :
          /\ audio_duration' = d
          /\ word_count' = wc
          /\ evaluation_result' = evaluate(comparison_result, d, wc)
    /\ pc' = "evaluated"
    /\ UNCHANGED << aside, inputs, locals, comparison_result, order_accuracy >>

Next ==
    \/ CompareBegin
    \/ StepExact
    \/ StepFuzzy
    \/ StepFuzzyRaise
    \/ StepUnmatched
    \/ CompareReturn
    \/ OrderAccuracy
    \/ Evaluate

Spec == Init /\ [][Next]_vars

\* ------------------------------------------- EvaluationService on its own
\* The methods of one EvaluationService called with given arguments, as
\* tests/test_services.py calls them: evaluate on a comparison dictionary
\* that holds the counts, and detect_suspicious_reading, categorize_speed,
\* generate_remarks and get_grade on given numbers.
EvalThresholds == {SuspiciousWpmThreshold, 300}
EvalCounts ==
    { c \in (0..MaxEvalWords) \X (0..MaxEvalWords) \X (0..MaxEvalWords) :
          c[1] <= IntMin(c[2], c[3]) }
EvalDurations == { Rat(0, 1), Rat(60, 1) }
\* Words read in a minute: one below, at and (but for 250, where the float
\* quotient 250 / 60 * 60 is no longer 250) one above each end of WPM_RANGES.
EvalWordCounts ==
    {0, 59, 60, 99, 100, 159, 160, 199, 200, 249, 251, 299, 300, 301}
FnFluencies ==
    { Rat(0 - 1, 1), Rat(0, 1), Rat(59, 1), Rat(60, 1), Rat(99, 1),
      Rat(100, 1), Rat(159, 1), Rat(160, 1), Rat(199, 1), Rat(200, 1),
      Rat(249, 1), Rat(499, 2), Rat(250, 1), Rat(251, 1), Rat(300, 1),
      Rat(301, 1), Infinity }
FnAccuracies == {0, 39, 40, 59, 60, 74, 75, 89, 90, 100}
FnCompletenesses == {0, 49, 50, 79, 80, 100}
\* Whole percentages handed to get_grade.
GradePercents == {0, 6, 25, 40, 50, 60, 65, 70, 75, 80, 85, 90, 95, 96, 100}

CountsDict(c) ==
    [NoResult EXCEPT !.matched_words = c[1], !.total_student_words = c[2],
                     !.total_reference_words = c[3]]

\* An EvaluationService and the comparison dictionary evaluate is given.
InitEvaluate ==
    /\ pc = "eval_start"
    /\ suspicious_wpm_threshold \in EvalThresholds
    /\ \E c \in EvalCounts :
          /\ comparison_result = CountsDict(c)
          /\ matched_words = c[1]
    /\ FnIdle

\* An EvaluationService and the arguments of the direct calls.
InitDirect ==
    /\ pc = "fn_start"
    /\ suspicious_wpm_threshold \in EvalThresholds
    /\ fn_fluency \in FnFluencies
    /\ fn_accuracy \in FnAccuracies
    /\ fn_completeness \in FnCompletenesses
    /\ fn_flag \in BOOLEAN
    /\ fn_suspicious = FALSE
    /\ fn_category = "unknown"
    /\ fn_remarks = ""
    /\ fn_grade = ""
    /\ comparison_result = NoResult
    /\ matched_words = 0

\* An EvaluationService and the arguments of get_grade.
InitGrade ==
    /\ pc = "grade_start"
    /\ suspicious_wpm_threshold = SuspiciousWpmThreshold
    /\ fn_accuracy \in GradePercents
    /\ fn_completeness \in GradePercents
    /\ fn_fluency = Rat(0, 1)
    /\ fn_flag = FALSE
    /\ fn_suspicious = FALSE
    /\ fn_category = "unknown"
    /\ fn_remarks = ""
    /\ fn_grade = ""
    /\ comparison_result = NoResult
    /\ matched_words = 0

InitEval ==
    /\ fuzzy_threshold = 80
    /\ student_text = <<>>
    /\ reference_text = <<>>
    /\ use_fuzzy = TRUE
    /\ student_tokens = <<>>
    /\ reference_tokens = <<>>
    /\ loop_i = 0
    /\ exact_matches = <<>>
    /\ fuzzy_matches = <<>>
    /\ unmatched_student = <<>>
    /\ match_details = <<>>
    /\ reference_remaining = <<>>
    /\ order_accuracy = Rat(0, 1)
    /\ audio_duration = Rat(0, 1)
    /\ word_count = 0
    /\ evaluation_result = NoEvaluation
    /\ NormIdle
    /\ ApartIdle
    /\ CallsIdle
    /\ (InitEvaluate \/ InitDirect \/ InitGrade)

\* What a call of an EvaluationService method leaves alone.
request == << inputs, locals, comparison_result, order_accuracy >>

\* evaluate(comparison_result, audio_duration, word_count)
EvaluateCall ==
    /\ pc = "eval_start"
    /\ \E d \in EvalDurations, wc \in EvalWordCounts :
          /\ audio_duration' = d
          /\ word_count' = wc
          /\ evaluation_result' = evaluate(comparison_result, d, wc)
    /\ pc' = "evaluated"
    /\ UNCHANGED << request, aside >>

\* detect_suspicious_reading(fn_fluency)
DetectCall ==
    /\ pc = "fn_start"
    /\ fn_suspicious' = detect_suspicious_reading(fn_fluency)
    /\ pc' = "fn_detected"
    /\ UNCHANGED << request, evals, apart, suspicious_wpm_threshold, fn_fluency,
                    fn_accuracy, fn_completeness, fn_flag, fn_category,
                    fn_remarks, fn_grade, norms, calls >>

\* categorize_speed(fn_fluency)
CategorizeCall ==
    /\ pc = "fn_detected"
    /\ fn_category' = categorize_speed(fn_fluency)
    /\ pc' = "fn_categorized"
    /\ UNCHANGED << request, evals, apart, suspicious_wpm_threshold, fn_fluency,
                    fn_accuracy, fn_completeness, fn_flag, fn_suspicious,
                    fn_remarks, fn_grade, norms, calls >>

\* generate_remarks(fn_accuracy, fn_completeness, fn_fluency, fn_flag)
RemarksCall ==
    /\ pc = "fn_categorized"
    /\ fn_remarks' = generate_remarks(Rat(fn_accuracy, 1), Rat(fn_completeness, 1),
                                      fn_fluency, fn_flag)
    /\ pc' = "fn_remarked"
    /\ UNCHANGED << request, evals, apart, suspicious_wpm_threshold, fn_fluency,
                    fn_accuracy, fn_completeness, fn_flag, fn_suspicious,
                    fn_category, fn_grade, norms, calls >>

\* get_grade(fn_accuracy, fn_completeness)
GradeCall ==
    /\ pc = "grade_start"
    /\ fn_grade' = get_grade(fn_accuracy, fn_completeness)
    /\ pc' = "graded"
    /\ UNCHANGED << request, evals, apart, suspicious_wpm_threshold, fn_fluency,
                    fn_accuracy, fn_completeness, fn_flag, fn_suspicious,
                    fn_category, fn_remarks, norms, calls >>

NextEval ==
    \/ EvaluateCall
    \/ DetectCall
    \/ CategorizeCall
    \/ RemarksCall
    \/ GradeCall

SpecEval == InitEval /\ [][NextEval]_vars

\* --------------------------------------------- normalize and tokenize
\* Raw texts over a lower-case letter, an upper-case letter, the apostrophe,
\* a punctuation character and two whitespace characters, and None.
RawAlphabet == {"a", "B", "'", ",", " ", "\t"}
RawTexts == UNION { [1..n -> RawAlphabet] : n \in 0..MaxRawLen } \cup {None}

InitNorm ==
    /\ pc = "norm_start"
    /\ raw_text \in RawTexts
    /\ normalized = <<>>
    /\ renormalized = <<>>
    /\ raw_tokens = <<>>
    /\ norm_tokens = <<>>
    /\ fuzzy_threshold = 80
    /\ student_text = <<>>
    /\ reference_text = <<>>
    /\ use_fuzzy = TRUE
    /\ RequestIdle
    /\ suspicious_wpm_threshold = SuspiciousWpmThreshold
    /\ FnIdle
    /\ CallsIdle
    /\ ApartIdle

\* normalized = normalize(raw_text)
NormalizeCall ==
    /\ pc = "norm_start"
    /\ normalized' = normalize(raw_text)
    /\ pc' = "normalized"
    /\ UNCHANGED << request, evals, apart, suspicious_wpm_threshold, fns, raw_text,
                    renormalized, raw_tokens, norm_tokens, calls >>

\* renormalized = normalize(normalized)
RenormalizeCall ==
    /\ pc = "normalized"
    /\ renormalized' = normalize(normalized)
    /\ pc' = "renormalized"
    /\ UNCHANGED << request, evals, apart, suspicious_wpm_threshold, fns, raw_text,
                    normalized, raw_tokens, norm_tokens, calls >>

\* raw_tokens = tokenize(raw_text)
TokenizeRaw ==
    /\ pc = "renormalized"
    /\ raw_tokens' = tokenize(raw_text)
    /\ pc' = "raw_tokenized"
    /\ UNCHANGED << request, evals, apart, suspicious_wpm_threshold, fns, raw_text,
                    normalized, renormalized, norm_tokens, calls >>

\* norm_tokens = tokenize(normalized)
TokenizeNormalized ==
    /\ pc = "raw_tokenized"
    /\ norm_tokens' = tokenize(normalized)
    /\ pc' = "tokenized"
    /\ UNCHANGED << request, evals, apart, suspicious_wpm_threshold, fns, raw_text,
                    normalized, renormalized, raw_tokens, calls >>

NextNorm ==
    \/ NormalizeCall
    \/ RenormalizeCall
    \/ TokenizeRaw
    \/ TokenizeNormalized

SpecNorm == InitNorm /\ [][NextNorm]_vars

\* ------------------------------------------------ two requests at once
\* Two requests use the module-level text_service and evaluation_service of
\* api/routes.py. Each owns the locals of its compare_texts call; the
\* services hold fuzzy_threshold and suspicious_wpm_threshold. A step of a
\* request is the start of compare_texts, one iteration of its loop, its
\* return, or the evaluate call.
Callers == {1, 2}
ConcVocabulary == { <<"a">>, <<"a", "b">> }
ConcTexts == { Join(ts) : ts \in UNION { [1..n -> ConcVocabulary] : n \in 0..MaxConcLen } }
ConcThresholds == {50, 80}
\* The shortest duration the handler accepts.
ConcDuration == Rat(1, 2)

\* The locals of a request that has not started compare_texts.
NewCall(s_text, r_text) ==
    [student_text |-> s_text, reference_text |-> r_text, use_fuzzy |-> TRUE,
     pc |-> "start", student_tokens |-> <<>>, reference_tokens |-> <<>>,
     loop_i |-> 0, matched_words |-> 0, exact_matches |-> <<>>,
     fuzzy_matches |-> <<>>, unmatched_student |-> <<>>,
     match_details |-> <<>>, reference_remaining |-> <<>>,
     comparison_result |-> NoResult, audio_duration |-> ConcDuration,
     word_count |-> 0, evaluation_result |-> NoEvaluation]

\* compare_texts up to its loop.
CallBegin(c) ==
    [c EXCEPT !.student_tokens = tokenize(c.student_text),
              !.reference_tokens = tokenize(c.reference_text),
              !.reference_remaining = tokenize(c.reference_text),
              !.pc = "loop"]

\* One iteration of the loop of compare_texts on the locals c.
CallLoopStep(c) ==
    LET word == c.student_tokens[c.loop_i + 1]
        pool == c.reference_remaining
        best == BestFuzzy(word, pool)
    IN  IF InList(word, pool)
        THEN [c EXCEPT !.reference_remaining = ListRemove(pool, word),
                       !.exact_matches = Append(@, word),
                       !.matched_words = @ + 1,
                       !.match_details =
                           Append(@, Detail(word, TRUE, "exact", word, Rat(100, 1))),
                       !.unmatched_student = TrackUnmatched(@, TRUE, word),
                       !.loop_i = @ + 1]
        ELSE IF c.use_fuzzy /\ RatLeq(Rat(fuzzy_threshold, 1), best.best_score)
        THEN IF PopRaises(pool, best.best_idx)
             THEN [c EXCEPT !.pc = "raised"]
             ELSE [c EXCEPT !.reference_remaining = ListPop(pool, best.best_idx),
                            !.fuzzy_matches =
                                Append(@, << word, best.best_match, best.best_score >>),
                            !.matched_words = @ + 1,
                            !.match_details =
                                Append(@, Detail(word, TRUE, "fuzzy", best.best_match,
                                                 best.best_score)),
                            !.unmatched_student = TrackUnmatched(@, TRUE, word),
                            !.loop_i = @ + 1]
        ELSE [c EXCEPT !.unmatched_student = TrackUnmatched(@, FALSE, word),
                       !.match_details =
                           Append(@, Detail(word, FALSE, "None", None, Rat(0, 1))),
                       !.loop_i = @ + 1]

\* The return statement of compare_texts.
CallReturn(c) ==
    [c EXCEPT !.comparison_result =
                  [matched_words |-> c.matched_words,
                   total_student_words |-> Len(c.student_tokens),
                   total_reference_words |-> Len(c.reference_tokens),
                   exact_matches |-> c.exact_matches,
                   fuzzy_matches |-> c.fuzzy_matches,
                   unmatched_student |-> c.unmatched_student,
                   unmatched_reference |-> c.reference_remaining,
                   match_details |-> c.match_details],
              !.pc = "returned"]

\* evaluate(comparison_result, audio_duration, len(transcript.split()))
CallEvaluate(c) ==
    [c EXCEPT !.word_count = Len(c.student_tokens),
              !.evaluation_result =
                  evaluate(c.comparison_result, c.audio_duration,
                           Len(c.student_tokens)),
              !.pc = "evaluated"]

\* The step a request takes from the locals c when it runs alone.
CallNext(c) ==
    IF c.pc = "start" THEN CallBegin(c)
    ELSE IF c.pc = "loop" /\ c.loop_i < Len(c.student_tokens) THEN CallLoopStep(c)
    ELSE IF c.pc = "loop" THEN CallReturn(c)
    ELSE IF c.pc = "returned" THEN CallEvaluate(c)
    ELSE c
RECURSIVE RunAlone(_)
\* The locals a request ends with when it runs alone from c.
RunAlone(c) ==
    IF c.pc \in {"evaluated", "raised"} THEN c ELSE RunAlone(CallNext(c))
CallDone(c) == c.pc \in {"evaluated", "raised"}

CallLocals_pool_on_service(p) ==
    [calls[p] EXCEPT !.reference_remaining =
        IF calls[p].pc = "loop" THEN calls[1].reference_remaining ELSE @]
\* The locals a step of request p works on: those of its own call.
CallLocals(p) == calls[p]

InitConc ==
    /\ fuzzy_threshold \in ConcThresholds
    /\ suspicious_wpm_threshold = SuspiciousWpmThreshold
    /\ calls \in [Callers -> { NewCall(s, r) : s \in ConcTexts, r \in ConcTexts }]
    /\ pc = "serving"
    /\ student_text = <<>>
    /\ reference_text = <<>>
    /\ use_fuzzy = TRUE
    /\ RequestIdle
    /\ FnIdle
    /\ NormIdle
    /\ ApartIdle

\* What a step of a request leaves alone: the services' configuration and
\* everything outside the two calls.
conc_rest == << inputs, pc, locals, comparison_result, order_accuracy, evals,
               suspicious_wpm_threshold, fns, norms, apart >>

ConcBegin(p) ==
    /\ CallLocals(p).pc = "start"
    /\ calls' = [calls EXCEPT ![p] = CallBegin(CallLocals(p))]
    /\ UNCHANGED conc_rest

ConcLoopStep(p) ==
    /\ CallLocals(p).pc = "loop"
    /\ CallLocals(p).loop_i < Len(CallLocals(p).student_tokens)
    /\ calls' = [calls EXCEPT ![p] = CallLoopStep(CallLocals(p))]
    /\ UNCHANGED conc_rest

ConcReturn(p) ==
    /\ CallLocals(p).pc = "loop"
    /\ CallLocals(p).loop_i = Len(CallLocals(p).student_tokens)
    /\ calls' = [calls EXCEPT ![p] = CallReturn(CallLocals(p))]
    /\ UNCHANGED conc_rest

ConcEvaluate(p) ==
    /\ CallLocals(p).pc = "returned"
    /\ calls' = [calls EXCEPT ![p] = CallEvaluate(CallLocals(p))]
    /\ UNCHANGED conc_rest

NextConc ==
    \E p \in Callers :
        \/ ConcBegin(p)
        \/ ConcLoopStep(p)
        \/ ConcReturn(p)
        \/ ConcEvaluate(p)

SpecConc == InitConc /\ [][NextConc]_vars

\* ------------------------------------- one input with and without fuzzy
\* compare_texts and evaluate are run on the same candidate and reference
\* twice: first with use_fuzzy = True, then with use_fuzzy = False.
PairVocabulary == { <<"a">>, <<"a", "b">>, <<"a", "b", "c">> }
PairTexts ==
    { Join(ts) : ts \in UNION { [1..n -> PairVocabulary] : n \in 0..MaxPairLen } }
PairThresholds == {1, 50, 80}

InitPair ==
    /\ fuzzy_threshold \in PairThresholds
    /\ suspicious_wpm_threshold = SuspiciousWpmThreshold
    /\ \E s \in PairTexts, r \in PairTexts :
          calls = << NewCall(s, r),
                     [NewCall(s, r) EXCEPT !.use_fuzzy = FALSE] >>
    /\ pc = "paired"
    /\ student_text = <<>>
    /\ reference_text = <<>>
    /\ use_fuzzy = TRUE
    /\ RequestIdle
    /\ FnIdle
    /\ NormIdle
    /\ ApartIdle

\* The call whose turn it is: the second one starts when the first is over.
PairTurn ==
    IF calls[1].pc \in {"evaluated", "raised"} THEN 2 ELSE 1

NextPair ==
    \/ ConcBegin(PairTurn)
    \/ ConcLoopStep(PairTurn)
    \/ ConcReturn(PairTurn)
    \/ ConcEvaluate(PairTurn)

SpecPair == InitPair /\ [][NextPair]_vars

\* ----------------------------------------------- services/chapter_service.py
\* One ChapterService on the file at its data_path. Opening the file for
\* writing, and json.dump into it, belong to the environment: each write
\* ends as drawn.
ChapterIds == {"a", "b"}
ChapterTitles == {"U"}
ChapterTexts == { << "x" >>, << "y", " ", "x" >> }
Keys(chapters) == { chapters[i].key : i \in 1..Len(chapters) }
\* chapters[key] for a key of the dict.
GetItem(chapters, key) ==
    chapters[CHOOSE i \in 1..Len(chapters) : chapters[i].key = key].value
\* chapters[key] = value: a key the dict has keeps its place, a new key
\* comes last.
SetItem(chapters, key, value) ==
    IF key \in Keys(chapters)
    THEN [i \in 1..Len(chapters) |->
             IF chapters[i].key = key THEN Item(key, value) ELSE chapters[i]]
    ELSE Append(chapters, Item(key, value))
\* del chapters[key]
DelItem(chapters, key) ==
    LET kept(it) == it.key # key IN SelectSeq(chapters, kept)
\* dict == dict: the same keys with the same values, in any order.
DictEq(d1, d2) ==
    { d1[i] : i \in 1..Len(d1) } = { d2[i] : i \in 1..Len(d2) }

\* The texts of the three chapters _create_default_chapters writes.
DefaultText1 ==
    << "R", "e", "a", "d", "i", "n", "g", " ", "i", "s", " ", "o", "n", "e",
       " ", "o", "f", " ", "t", "h", "e", " ", "m", "o", "s", "t", " ", "i",
       "m", "p", "o", "r", "t", "a", "n", "t", " ", "s", "k", "i", "l", "l",
       "s", " ", "t", "h", "a", "t", " ", "w", "e", " ", "l", "e", "a", "r",
       "n", " ", "i", "n", " ", "s", "c", "h", "o", "o", "l", ".", " ", "I",
       "t", " ", "h", "e", "l", "p", "s", " ", "u", "s", " ", "u", "n", "d",
       "e", "r", "s", "t", "a", "n", "d", " ", "t", "h", "e", " ", "w", "o",
       "r", "l", "d", " ", "a", "r", "o", "u", "n", "d", " ", "u", "s", " ",
       "a", "n", "d", " ", "o", "p", "e", "n", "s", " ", "d", "o", "o", "r",
       "s", " ", "t", "o", " ", "n", "e", "w", " ", "k", "n", "o", "w", "l",
       "e", "d", "g", "e", " ", "a", "n", "d", " ", "e", "x", "p", "e", "r",
       "i", "e", "n", "c", "e", "s", ".", " ", "W", "h", "e", "n", " ", "w",
       "e", " ", "r", "e", "a", "d", ",", " ", "o", "u", "r", " ", "b", "r",
       "a", "i", "n", " ", "p", "r", "o", "c", "e", "s", "s", "e", "s", " ",
       "w", "o", "r", "d", "s", " ", "a", "n", "d", " ", "c", "r", "e", "a",
       "t", "e", "s", " ", "m", "e", "a", "n", "i", "n", "g", " ", "f", "r",
       "o", "m", " ", "t", "h", "e", "m", ".", " ", "G", "o", "o", "d", " ",
       "r", "e", "a", "d", "e", "r", "s", " ", "p", "r", "a", "c", "t", "i",
       "c", "e", " ", "e", "v", "e", "r", "y", " ", "d", "a", "y", " ", "a",
       "n", "d", " ", "e", "n", "j", "o", "y", " ", "e", "x", "p", "l", "o",
       "r", "i", "n", "g", " ", "n", "e", "w", " ", "b", "o", "o", "k", "s",
       " ", "a", "n", "d", " ", "s", "t", "o", "r", "i", "e", "s", "." >>
DefaultText2 ==
    << "T", "h", "e", " ", "w", "a", "t", "e", "r", " ", "c", "y", "c", "l",
       "e", " ", "i", "s", " ", "t", "h", "e", " ", "c", "o", "n", "t", "i",
       "n", "u", "o", "u", "s", " ", "m", "o", "v", "e", "m", "e", "n", "t",
       " ", "o", "f", " ", "w", "a", "t", "e", "r", " ", "o", "n", ",", " ",
       "a", "b", "o", "v", "e", ",", " ", "a", "n", "d", " ", "b", "e", "l",
       "o", "w", " ", "t", "h", "e", " ", "s", "u", "r", "f", "a", "c", "e",
       " ", "o", "f", " ", "t", "h", "e", " ", "E", "a", "r", "t", "h", ".",
       " ", "W", "a", "t", "e", "r", " ", "e", "v", "a", "p", "o", "r", "a",
       "t", "e", "s", " ", "f", "r", "o", "m", " ", "o", "c", "e", "a", "n",
       "s", ",", " ", "l", "a", "k", "e", "s", ",", " ", "a", "n", "d", " ",
       "r", "i", "v", "e", "r", "s", " ", "i", "n", "t", "o", " ", "t", "h",
       "e", " ", "a", "t", "m", "o", "s", "p", "h", "e", "r", "e", ".", " ",
       "W", "h", "e", "n", " ", "t", "h", "e", " ", "w", "a", "t", "e", "r",
       " ", "v", "a", "p", "o", "r", " ", "c", "o", "o", "l", "s", ",", " ",
       "i", "t", " ", "c", "o", "n", "d", "e", "n", "s", "e", "s", " ", "i",
       "n", "t", "o", " ", "c", "l", "o", "u", "d", "s", ".", " ", "E", "v",
       "e", "n", "t", "u", "a", "l", "l", "y", ",", " ", "t", "h", "e", " ",
       "w", "a", "t", "e", "r", " ", "f", "a", "l", "l", "s", " ", "b", "a",
       "c", "k", " ", "t", "o", " ", "E", "a", "r", "t", "h", " ", "a", "s",
       " ", "p", "r", "e", "c", "i", "p", "i", "t", "a", "t", "i", "o", "n",
       ",", " ", "s", "u", "c", "h", " ", "a", "s", " ", "r", "a", "i", "n",
       " ", "o", "r", " ", "s", "n", "o", "w", ".", " ", "T", "h", "i", "s",
       " ", "c", "y", "c", "l", "e", " ", "r", "e", "p", "e", "a", "t", "s",
       " ", "e", "n", "d", "l", "e", "s", "s", "l", "y", ",", " ", "e", "n",
       "s", "u", "r", "i", "n", "g", " ", "t", "h", "a", "t", " ", "w", "a",
       "t", "e", "r", " ", "i", "s", " ", "c", "o", "n", "s", "t", "a", "n",
       "t", "l", "y", " ", "r", "e", "c", "y", "c", "l", "e", "d", " ", "o",
       "n", " ", "o", "u", "r", " ", "p", "l", "a", "n", "e", "t", "." >>
DefaultText3 ==
    << "M", "a", "i", "n", "t", "a", "i", "n", "i", "n", "g", " ", "h", "e",
       "a", "l", "t", "h", "y", " ", "h", "a", "b", "i", "t", "s", " ", "i",
       "s", " ", "e", "s", "s", "e", "n", "t", "i", "a", "l", " ", "f", "o",
       "r", " ", "a", " ", "h", "a", "p", "p", "y", " ", "a", "n", "d", " ",
       "p", "r", "o", "d", "u", "c", "t", "i", "v", "e", " ", "l", "i", "f",
       "e", ".", " ", "E", "a", "t", "i", "n", "g", " ", "n", "u", "t", "r",
       "i", "t", "i", "o", "u", "s", " ", "f", "o", "o", "d", "s", " ", "g",
       "i", "v", "e", "s", " ", "o", "u", "r", " ", "b", "o", "d", "y", " ",
       "t", "h", "e", " ", "e", "n", "e", "r", "g", "y", " ", "i", "t", " ",
       "n", "e", "e", "d", "s", ".", " ", "R", "e", "g", "u", "l", "a", "r",
       " ", "e", "x", "e", "r", "c", "i", "s", "e", " ", "k", "e", "e", "p",
       "s", " ", "o", "u", "r", " ", "m", "u", "s", "c", "l", "e", "s", " ",
       "a", "n", "d", " ", "h", "e", "a", "r", "t", " ", "s", "t", "r", "o",
       "n", "g", ".", " ", "G", "e", "t", "t", "i", "n", "g", " ", "e", "n",
       "o", "u", "g", "h", " ", "s", "l", "e", "e", "p", " ", "h", "e", "l",
       "p", "s", " ", "o", "u", "r", " ", "b", "r", "a", "i", "n", " ", "r",
       "e", "s", "t", " ", "a", "n", "d", " ", "r", "e", "c", "o", "v", "e",
       "r", ".", " ", "D", "r", "i", "n", "k", "i", "n", "g", " ", "p", "l",
       "e", "n", "t", "y", " ", "o", "f", " ", "w", "a", "t", "e", "r", " ",
       "k", "e", "e", "p", "s", " ", "u", "s", " ", "h", "y", "d", "r", "a",
       "t", "e", "d", " ", "t", "h", "r", "o", "u", "g", "h", "o", "u", "t",
       " ", "t", "h", "e", " ", "d", "a", "y", ".", " ", "T", "h", "e", "s",
       "e", " ", "s", "i", "m", "p", "l", "e", " ", "h", "a", "b", "i", "t",
       "s", " ", "c", "a", "n", " ", "m", "a", "k", "e", " ", "a", " ", "b",
       "i", "g", " ", "d", "i", "f", "f", "e", "r", "e", "n", "c", "e", " ",
       "i", "n", " ", "h", "o", "w", " ", "w", "e", " ", "f", "e", "e", "l",
       "." >>
DefaultChapters ==
    << Item("chapter_1",
            Chapter("chapter_1", "Introduction to Reading", DefaultText1)),
       Item("chapter_2", Chapter("chapter_2", "The Water Cycle", DefaultText2)),
       Item("chapter_3", Chapter("chapter_3", "Healthy Habits", DefaultText3)) >>
\* The files a service is constructed on.
InitialFiles ==
    { MissingFile, ChaptersFile(NoChapters),
      ChaptersFile(<< Item("a", Chapter("a", "T", << "x" >>)) >>) }

\* with open(data_path, 'w') as f: json.dump(data, f): the file holds the
\* document, or open raises and the file is as it was, or open has
\* truncated the file and json.dump raises before the document is complete.
WriteOutcomes == {"written", "open_raises", "dump_raises"}
Write(file, chapters, w) ==
    IF w = "written" THEN ChaptersFile(chapters)
    ELSE IF w = "open_raises" THEN file
    ELSE CorruptFile

\* The write _load_chapters makes: none unless the cache is empty and the
\* file is missing.
LoadOutcomes(cache, file) ==
    IF cache.none /\ file.state = "missing" THEN WriteOutcomes ELSE {"written"}

\* _load_chapters: the cache if there is one; otherwise the default file is
\* created if the file is missing, then the file is read into the cache.
\* raised names the exception that leaves the method, if any.
load_chapters(cache, file, w) ==
    IF ~cache.none THEN [raised |-> "", cache |-> cache, file |-> file]
    ELSE IF file.state = "missing" /\ w # "written"
    THEN [raised |-> "OSError", cache |-> cache,
          file |-> Write(file, DefaultChapters, w)]
    ELSE LET created == IF file.state = "missing"
                        THEN Write(file, DefaultChapters, w) ELSE file
         IN  IF created.state = "valid"
             THEN [raised |-> "", cache |-> Cached(created.chapters),
                   file |-> created]
             ELSE [raised |-> "JSONDecodeError", cache |-> cache,
                   file |-> created]

\* The document a corrupt chapters file holds: what is on disk when
\* json.dump(data, f, indent=2) raised after opening the dict of chapters.
CorruptDocument ==
    << "{", "\n", " ", " ", "\"", "c", "h", "a", "p", "t", "e", "r", "s",
       "\"", ":", " ", "{" >>
\* What json.load reports for that document: the message and the position
\* (an index from 0) where the decoder stopped.
CorruptDecode ==
    [msg |-> "Expecting property name enclosed in double quotes",
     pos |-> Len(CorruptDocument)]
\* str(e) of json.JSONDecodeError(msg, doc, pos): the line is one more than
\* the newlines before pos, the column counts from the last of them.
JSONDecodeErrorStr(msg, doc, pos) ==
    LET newlines == { i \in 1..pos : doc[i] = "\n" }
        last == IF newlines = {} THEN 0
                ELSE CHOOSE i \in newlines : \A j \in newlines : j <= i
        lineno == Cardinality(newlines) + 1
        colno == pos - last + 1
    IN  msg \o ": line " \o ToString(lineno) \o " column "
        \o ToString(colno) \o " (char " \o ToString(pos) \o ")"
\* str(e) of the JSONDecodeError _load_chapters raises in place of the
\* decoder's: its message prefixed, its document and position kept.
InvalidJSONMessage ==
    JSONDecodeErrorStr("Invalid JSON in chapters file: " \o CorruptDecode.msg,
                       CorruptDocument, CorruptDecode.pos)

\* ChapterService.get_chapter_text on the chapters loaded.
get_chapter_text(chapters, chapter_id) ==
    IF chapter_id \in Keys(chapters) THEN GetItem(chapters, chapter_id).text
    ELSE None

\* len(text.split()): the words of a text are as many as the characters
\* that are not whitespace and stand first or after whitespace.
SplitLen(text) ==
    Cardinality({ k \in 1..Len(text) :
                    /\ ~IsSpace(text[k])
                    /\ k = 1 \/ IsSpace(text[k - 1]) })

\* ChapterService.list_chapters on the chapters loaded: id, title and
\* word count of each chapter, in the order of the dict.
list_chapters(chapters) ==
    [i \in 1..Len(chapters) |->
        [id |-> chapters[i].key, title |-> chapters[i].value.title,
         word_count |-> SplitLen(chapters[i].value.text)]]

ReturnedBool(b) == [ReturnValue("bool") EXCEPT !.bool = b]
ReturnedText(t) ==
    [ReturnValue(IF t = None THEN "None" ELSE "str") EXCEPT !.text = t]
ReturnedNone == ReturnedText(None)
ReturnedChapter(chapter) == [ReturnValue("dict") EXCEPT !.chapter = chapter]
ReturnedList(listing) == [ReturnValue("list") EXCEPT !.listing = listing]
Raised(exception) == [ReturnValue("raise") EXCEPT !.exception = exception]
ChapterCall(op, chapter_id, returned) ==
    [op |-> op, chapter_id |-> chapter_id, returned |-> returned]

InitChapter ==
    /\ chapters_file \in InitialFiles
    /\ chapters_cache = NoCache
    /\ chapter_call = NoChapterCall
    /\ fuzzy_threshold = 80
    /\ suspicious_wpm_threshold = SuspiciousWpmThreshold
    /\ pc = "stored"
    /\ student_text = <<>>
    /\ reference_text = <<>>
    /\ use_fuzzy = TRUE
    /\ RequestIdle
    /\ FnIdle
    /\ NormIdle
    /\ CallsIdle
    /\ RouteIdle
    /\ SingletonIdle

chapter_rest == << inputs, pc, locals, comparison_result, order_accuracy, evals,
                  suspicious_wpm_threshold, fns, norms, calls, routes,
                  singles >>

\* A call that raised in _load_chapters.
LoadRaised(op, chapter_id, loaded) ==
    /\ chapters_cache' = loaded.cache
    /\ chapters_file' = loaded.file
    /\ chapter_call' = ChapterCall(op, chapter_id, Raised(loaded.raised))

\* A call that returns without writing.
ReturnLoaded(op, chapter_id, loaded, returned) ==
    /\ chapters_cache' = loaded.cache
    /\ chapters_file' = loaded.file
    /\ chapter_call' = ChapterCall(op, chapter_id, returned)

\* _save_chapters(chapters) on the dict the call has changed in place, which
\* is the dict the cache holds, then the assignment to the cache and
\* return True if the write did not raise.
SaveChanged(op, chapter_id, loaded, changed, w) ==
    /\ chapters_cache' = Cached(changed)
    /\ chapters_file' = Write(loaded.file, changed, w)
    /\ chapter_call' = ChapterCall(op, chapter_id,
                           IF w = "written" THEN ReturnedBool(TRUE)
                           ELSE Raised("OSError"))

GetChapterText(chapter_id) ==
    /\ pc = "stored"
    /\ \E w \in LoadOutcomes(chapters_cache, chapters_file) :
          LET loaded == load_chapters(chapters_cache, chapters_file, w)
          IN  IF loaded.raised # ""
              THEN LoadRaised("get_chapter_text", chapter_id, loaded)
              ELSE ReturnLoaded("get_chapter_text", chapter_id, loaded,
                       ReturnedText(get_chapter_text(loaded.cache.chapters,
                                                     chapter_id)))
    /\ UNCHANGED chapter_rest

\* get_chapter: chapters.get(chapter_id), the entry the cache holds or None.
GetChapter(chapter_id) ==
    /\ pc = "stored"
    /\ \E w \in LoadOutcomes(chapters_cache, chapters_file) :
          LET loaded == load_chapters(chapters_cache, chapters_file, w)
              chapters == loaded.cache.chapters
          IN  IF loaded.raised # ""
              THEN LoadRaised("get_chapter", chapter_id, loaded)
              ELSE ReturnLoaded("get_chapter", chapter_id, loaded,
                       IF chapter_id \in Keys(chapters)
                       THEN ReturnedChapter(GetItem(chapters, chapter_id))
                       ELSE ReturnedNone)
    /\ UNCHANGED chapter_rest

ListChapters ==
    /\ pc = "stored"
    /\ \E w \in LoadOutcomes(chapters_cache, chapters_file) :
          LET loaded == load_chapters(chapters_cache, chapters_file, w)
          IN  IF loaded.raised # ""
              THEN LoadRaised("list_chapters", "", loaded)
              ELSE ReturnLoaded("list_chapters", "", loaded,
                       ReturnedList(list_chapters(loaded.cache.chapters)))
    /\ UNCHANGED chapter_rest

AddChapter(chapter_id, title, text) ==
    /\ pc = "stored"
    /\ \E w1 \in LoadOutcomes(chapters_cache, chapters_file) :
          LET loaded == load_chapters(chapters_cache, chapters_file, w1)
              chapters == loaded.cache.chapters
          IN  IF loaded.raised # ""
              THEN LoadRaised("add_chapter", chapter_id, loaded)
              ELSE IF chapter_id \in Keys(chapters)
              THEN ReturnLoaded("add_chapter", chapter_id, loaded,
                                ReturnedBool(FALSE))
              ELSE \E w2 \in WriteOutcomes :
                      SaveChanged("add_chapter", chapter_id, loaded,
                          SetItem(chapters, chapter_id,
                                  Chapter(chapter_id, title, text)), w2)
    /\ UNCHANGED chapter_rest

\* title and text are None or a string.
UpdateChapter(chapter_id, title, text) ==
    /\ pc = "stored"
    /\ \E w1 \in LoadOutcomes(chapters_cache, chapters_file) :
          LET loaded == load_chapters(chapters_cache, chapters_file, w1)
              chapters == loaded.cache.chapters
          IN  IF loaded.raised # ""
              THEN LoadRaised("update_chapter", chapter_id, loaded)
              ELSE IF chapter_id \notin Keys(chapters)
              THEN ReturnLoaded("update_chapter", chapter_id, loaded,
                                ReturnedBool(FALSE))
              ELSE LET old == GetItem(chapters, chapter_id)
                       titled == IF title # "None"
                                 THEN [old EXCEPT !.title = title] ELSE old
                       texted == IF text # None
                                 THEN [titled EXCEPT !.text = text] ELSE titled
                   IN  \E w2 \in WriteOutcomes :
                          SaveChanged("update_chapter", chapter_id, loaded,
                              SetItem(chapters, chapter_id, texted), w2)
    /\ UNCHANGED chapter_rest

DeleteChapter(chapter_id) ==
    /\ pc = "stored"
    /\ \E w1 \in LoadOutcomes(chapters_cache, chapters_file) :
          LET loaded == load_chapters(chapters_cache, chapters_file, w1)
              chapters == loaded.cache.chapters
          IN  IF loaded.raised # ""
              THEN LoadRaised("delete_chapter", chapter_id, loaded)
              ELSE IF chapter_id \notin Keys(chapters)
              THEN ReturnLoaded("delete_chapter", chapter_id, loaded,
                                ReturnedBool(FALSE))
              ELSE \E w2 \in WriteOutcomes :
                      SaveChanged("delete_chapter", chapter_id, loaded,
                                  DelItem(chapters, chapter_id), w2)
    /\ UNCHANGED chapter_rest

\* reload_chapters: the cache is cleared, then loaded from the file.
ReloadChapters ==
    /\ pc = "stored"
    /\ \E w \in LoadOutcomes(NoCache, chapters_file) :
          LET loaded == load_chapters(NoCache, chapters_file, w)
          IN  IF loaded.raised # ""
              THEN LoadRaised("reload_chapters", "", loaded)
              ELSE ReturnLoaded("reload_chapters", "", loaded, ReturnedNone)
    /\ UNCHANGED chapter_rest

NextChapter ==
    \/ \E chapter_id \in ChapterIds \cup {"chapter_1"} :
          GetChapterText(chapter_id)
    \/ \E chapter_id \in ChapterIds \cup {"chapter_1"} : GetChapter(chapter_id)
    \/ ListChapters
    \/ \E chapter_id \in ChapterIds, title \in ChapterTitles,
          text \in ChapterTexts : AddChapter(chapter_id, title, text)
    \/ \E chapter_id \in ChapterIds, title \in ChapterTitles \cup {"None"},
          text \in ChapterTexts \cup {None} :
          UpdateChapter(chapter_id, title, text)
    \/ \E chapter_id \in ChapterIds : DeleteChapter(chapter_id)
    \/ ReloadChapters

SpecChapter == InitChapter /\ [][NextChapter]_vars

\* ------------------------------------------------- api/routes.py handler
\* assess_audio on the module-level services of routes.py. The audio
\* processor and the speech recognizer are the handler's environment: what
\* they return is drawn when they are called. The handlers of the requests
\* are coroutines on one event loop: a handler runs from where it is entered
\* or resumed to its await or its end before another one runs.
\* A file name is a sequence of characters without a path separator.
RouteFilenames ==
    { None,
      << "a", ".", "w", "a", "v" >>,
      << "a", ".", "M", "P", "3" >>,
      << "a", ".", "t", "x", "t" >>,
      << "w", "a", "v" >>,
      << ".", "w", "a", "v" >> }
\* The chapters of a chapters file: one with text, one whose text is empty.
RouteChapters ==
    << Item("ch1", Chapter("ch1", "T", << "a", " ", "B", "," >>)),
       Item("ch2", Chapter("ch2", "T", <<>>)) >>
RouteChapterIds == {"ch1", "ch2", "zz"}
RouteContents == {"", "RIFF"}
Uploads ==
    [filename : RouteFilenames, chapter_id : RouteChapterIds,
     content : RouteContents]
\* The uploads of the second request: a readable one and an empty one.
OtherUploads ==
    { u \in Uploads : /\ u.filename = << "a", ".", "w", "a", "v" >>
                      /\ u.chapter_id = "ch1" }
\* The chapter store when the requests arrive: the file and the cache of
\* the module's chapter_service.
RouteStores ==
    { [file |-> ChaptersFile(RouteChapters), cache |-> NoCache],
      [file |-> ChaptersFile(RouteChapters), cache |-> Cached(RouteChapters)],
      [file |-> MissingFile, cache |-> NoCache],
      [file |-> CorruptFile, cache |-> NoCache] }
\* await audio.read(): the content, an exception of the read, or the
\* cancellation of the request while it waits.
ReadOutcomes == {"read", "raises", "cancelled"}
\* process_audio: the path given (never for an mp3 upload, which is always
\* converted), or a new file, or an exception before or after the new file
\* is created.
ProcessOutcomes(file_extension) ==
    IF file_extension = << ".", "w", "a", "v" >>
    THEN {"same", "distinct", "load_raises", "export_raises"}
    ELSE {"distinct", "load_raises", "export_raises"}
RouteDurations ==
    { NoDuration, Seconds(Rat(2, 5)), Seconds(Rat(1, 2)), Seconds(Rat(60, 1)) }
\* transcribe returns the recognized text stripped, or raises.
RouteTranscripts ==
    { <<>>, << "a" >>, << "a", " ", "a", "b" >>, << "A", ",", " ", "c" >> }
TranscribeOutcomes ==
    { [raises |-> FALSE, text |-> t] : t \in RouteTranscripts }
    \cup { [raises |-> TRUE, text |-> <<>>] }
\* str(e) of an exception the environment raises.
EnvMessage == "failed"

\* os.path.splitext(name)[1] for a name without a path separator: from the
\* last dot on, unless only dots stand before it.
SplitExt(name) ==
    LET dots == { k \in 1..Len(name) : name[k] = "." }
    IN  IF dots = {} THEN <<>>
        ELSE LET dotIndex == CHOOSE k \in dots : \A j \in dots : j <= k
             IN  IF \E k \in 1..(dotIndex - 1) : name[k] # "."
                 THEN SubSeq(name, dotIndex, Len(name))
                 ELSE <<>>
\* str.lower() on the characters of the file names.
FilenameLowerCase == [M |-> "m", P |-> "p", W |-> "w", V |-> "v"]
FilenameLower(text) ==
    [k \in 1..Len(text) |->
        IF text[k] \in DOMAIN FilenameLowerCase THEN FilenameLowerCase[text[k]]
        ELSE Lower(text[k])]
SupportedExtensions == { << ".", "w", "a", "v" >>, << ".", "m", "p", "3" >> }
RECURSIVE StrOf(_)
\* The str of a sequence of characters.
StrOf(text) == IF text = <<>> THEN "" ELSE Head(text) \o StrOf(Tail(text))
MinAudioDuration_none == Rat(0, 1)

\* The shortest audio the handler accepts, in seconds.
MinAudioDuration == Rat(1, 2)

HTTPException(status_code, detail) ==
    [kind |-> "HTTPException", status_code |-> status_code, detail |-> detail]
OtherException(name, message) ==
    [kind |-> name, status_code |-> 0, detail |-> message]
Response == [kind |-> "response", status_code |-> 200, detail |-> ""]
\* A temporary file: NamedTemporaryFile gives each call a name of its own.
TempFile(r, name) == [request |-> r, name |-> name]

InitRoute ==
    /\ \E first \in Uploads, other \in OtherUploads :
          route_in = [r \in Requests |-> IF r = 1 THEN first ELSE other]
    /\ route = [r \in Requests |-> NewRoute]
    /\ files = {}
    /\ outcome = [r \in Requests |-> NoOutcome]
    /\ \E store \in RouteStores :
          /\ chapters_file = store.file
          /\ chapters_cache = store.cache
    /\ chapter_call = NoChapterCall
    /\ fuzzy_threshold = 80
    /\ suspicious_wpm_threshold = SuspiciousWpmThreshold
    /\ pc = "handling"
    /\ student_text = <<>>
    /\ reference_text = <<>>
    /\ use_fuzzy = TRUE
    /\ RequestIdle
    /\ FnIdle
    /\ NormIdle
    /\ CallsIdle
    /\ SingletonIdle

route_rest == << inputs, pc, locals, comparison_result, order_accuracy, evals,
                suspicious_wpm_threshold, fns, norms, calls, route_in,
                singles >>

\* The handler of request r is not running: it has not been entered, it
\* waits at await audio.read(), or it has ended.
Resting(r) == route[r].pc \in {"check_filename", "read_upload", "done"}
\* The event loop can run the handler of request r.
MayRun(r) == \A q \in Requests \ {r} : Resting(q)

\* An exception raised outside the try statement leaves the handler.
Leave(r, exception) ==
    /\ outcome' = [outcome EXCEPT ![r] = exception]
    /\ route' = [route EXCEPT ![r].pc = "done"]
    /\ UNCHANGED files

\* if audio.filename is None: raise 400
CheckFilename(r) ==
    /\ route[r].pc = "check_filename"
    /\ MayRun(r)
    /\ IF route_in[r].filename = None
       THEN Leave(r, HTTPException(400, "No filename provided for audio file"))
       ELSE /\ route' = [route EXCEPT ![r].pc = "check_format"]
            /\ UNCHANGED << files, outcome >>
    /\ UNCHANGED << stores, route_rest >>

\* file_extension = os.path.splitext(audio.filename)[1].lower(); the format
\* check.
CheckFormat(r) ==
    /\ route[r].pc = "check_format"
    /\ MayRun(r)
    /\ LET file_extension == FilenameLower(SplitExt(route_in[r].filename))
       IN  IF file_extension \notin SupportedExtensions
           THEN Leave(r, HTTPException(400,
                    "Invalid audio format: " \o StrOf(file_extension)
                    \o ". Supported formats: .wav, .mp3"))
           ELSE /\ route' = [route EXCEPT ![r].file_extension = file_extension,
                                          ![r].pc = "lookup_chapter"]
                /\ UNCHANGED << files, outcome >>
    /\ UNCHANGED << stores, route_rest >>

\* reference_text = chapter_service.get_chapter_text(chapter_id), which
\* loads the chapters if the cache is empty; an exception of the load
\* leaves the handler: the JSONDecodeError _load_chapters builds, or the
\* exception of writing the default file.
LookupChapter(r) ==
    /\ route[r].pc = "lookup_chapter"
    /\ MayRun(r)
    /\ \E w \in LoadOutcomes(chapters_cache, chapters_file) :
          LET chapter_id == route_in[r].chapter_id
              loaded == load_chapters(chapters_cache, chapters_file, w)
              text == get_chapter_text(loaded.cache.chapters, chapter_id)
          IN  IF loaded.raised # ""
              THEN /\ LoadRaised("get_chapter_text", chapter_id, loaded)
                   /\ Leave(r, OtherException(loaded.raised,
                               IF loaded.raised = "JSONDecodeError"
                               THEN InvalidJSONMessage ELSE EnvMessage))
              ELSE /\ ReturnLoaded("get_chapter_text", chapter_id, loaded,
                                   ReturnedText(text))
                   /\ IF text = None
                      THEN Leave(r, HTTPException(404,
                               "Chapter with ID '" \o chapter_id
                               \o "' not found"))
                      ELSE /\ route' = [route EXCEPT
                                  ![r].reference_text = text,
                                  ![r].pc = "save_upload"]
                           /\ UNCHANGED << files, outcome >>
    /\ UNCHANGED route_rest

\* temp_file = None, try, and the head of the with statement: the temporary
\* file is created and bound to temp_file; the handler then waits at
\* await audio.read().
SaveUpload(r) ==
    /\ route[r].pc = "save_upload"
    /\ MayRun(r)
    /\ files' = files \cup {TempFile(r, "upload")}
    /\ route' = [route EXCEPT ![r].temp_file = "file",
                              ![r].pc = "read_upload"]
    /\ UNCHANGED << outcome, stores, route_rest >>

\* The handler is resumed at await audio.read(): with the content, which
\* is checked and written before temp_file_path is assigned, or with the
\* exception of the read, or with CancelledError, which no except clause
\* of the handler catches.
ReadUpload(r) ==
    /\ route[r].pc = "read_upload"
    /\ MayRun(r)
    /\ \E o \in ReadOutcomes :
          \/ /\ o = "read"
             /\ IF route_in[r].content = ""
                THEN route' = [route EXCEPT
                         ![r].pending =
                             HTTPException(400, "Uploaded audio file is empty"),
                         ![r].pc = "except"]
                ELSE route' = [route EXCEPT ![r].temp_file_path = "upload",
                                            ![r].pc = "process_audio"]
          \/ /\ o = "raises"
             /\ route' = [route EXCEPT
                    ![r].pending = OtherException("OSError", EnvMessage),
                    ![r].pc = "except"]
          \/ /\ o = "cancelled"
             /\ route' = [route EXCEPT
                    ![r].pending = OtherException("CancelledError", ""),
                    ![r].pc = "finally"]
    /\ UNCHANGED << files, outcome, stores, route_rest >>

\* processed_audio_path = audio_processor.process_audio(temp_file_path)
ProcessAudio(r) ==
    /\ route[r].pc = "process_audio"
    /\ MayRun(r)
    /\ \E o \in ProcessOutcomes(route[r].file_extension) :
          LET staged == [route[r] EXCEPT !.stages = Append(@, "process_audio")]
          IN  \/ /\ o = "same"
                 /\ route' = [route EXCEPT ![r] = [staged EXCEPT
                        !.processed_audio_path = route[r].temp_file_path,
                        !.pc = "get_duration"]]
                 /\ UNCHANGED files
              \/ /\ o = "distinct"
                 /\ route' = [route EXCEPT ![r] = [staged EXCEPT
                        !.processed_audio_path = "processed",
                        !.pc = "get_duration"]]
                 /\ files' = files \cup {TempFile(r, "processed")}
              \/ /\ o = "load_raises"
                 /\ route' = [route EXCEPT ![r] = [staged EXCEPT
                        !.pending = OtherException("ValueError",
                            "Failed to load audio file: " \o EnvMessage),
                        !.pc = "except"]]
                 /\ UNCHANGED files
              \/ /\ o = "export_raises"
                 /\ route' = [route EXCEPT ![r] = [staged EXCEPT
                        !.pending = OtherException("Exception", EnvMessage),
                        !.pc = "except"]]
                 /\ files' = files \cup {TempFile(r, "processed")}
    /\ UNCHANGED << outcome, stores, route_rest >>

\* audio_duration = audio_processor.get_duration(processed_audio_path) and
\* the duration check.
GetDuration(r) ==
    /\ route[r].pc = "get_duration"
    /\ MayRun(r)
    /\ \E d \in RouteDurations :
          LET staged == [route[r] EXCEPT !.stages = Append(@, "get_duration"),
                                         !.audio_duration = d]
          IN  IF d.none \/ RatLt(d.seconds, MinAudioDuration)
              THEN route' = [route EXCEPT ![r] = [staged EXCEPT
                       !.pending = HTTPException(400,
                           "Audio file is too short or invalid"),
                       !.pc = "except"]]
              ELSE route' = [route EXCEPT ![r] = [staged EXCEPT
                       !.pc = "transcribe"]]
    /\ UNCHANGED << files, outcome, stores, route_rest >>

\* transcript = asr_service.transcribe(processed_audio_path) and the
\* transcript check.
Transcribe(r) ==
    /\ route[r].pc = "transcribe"
    /\ MayRun(r)
    /\ \E t \in TranscribeOutcomes :
          LET staged == [route[r] EXCEPT !.stages = Append(@, "transcribe")]
          IN  IF t.raises
              THEN route' = [route EXCEPT ![r] = [staged EXCEPT
                       !.pending = OtherException("Exception",
                           "Failed to transcribe audio: " \o EnvMessage),
                       !.pc = "except"]]
              ELSE IF t.text = <<>> \/ Strip(t.text) = <<>>
              THEN route' = [route EXCEPT ![r] = [staged EXCEPT
                       !.transcript = t.text,
                       !.pending = HTTPException(422,
                           "Could not transcribe any speech from the audio. "
                           \o "Please ensure the audio contains clear speech."),
                       !.pc = "except"]]
              ELSE route' = [route EXCEPT ![r] = [staged EXCEPT
                       !.transcript = t.text,
                       !.pc = "normalize"]]
    /\ UNCHANGED << files, outcome, stores, route_rest >>

\* text_service.normalize on the transcript and on the reference text.
NormalizeTexts(r) ==
    /\ route[r].pc = "normalize"
    /\ MayRun(r)
    /\ route' = [route EXCEPT
           ![r].stages = @ \o << "normalize", "normalize" >>,
           ![r].normalized_transcript = normalize(route[r].transcript),
           ![r].normalized_reference = normalize(route[r].reference_text),
           ![r].pc = "compare_texts"]
    /\ UNCHANGED << files, outcome, stores, route_rest >>

RECURSIVE RunCompare(_)
\* compare_texts from its first statement to its return or its exception.
RunCompare(c) ==
    IF c.pc \in {"returned", "raised"} THEN c ELSE RunCompare(CallNext(c))

\* comparison_result = text_service.compare_texts(...)
CompareTexts(r) ==
    /\ route[r].pc = "compare_texts"
    /\ MayRun(r)
    /\ LET call == RunCompare(NewCall(route[r].normalized_transcript,
                                      route[r].normalized_reference))
           staged == [route[r] EXCEPT !.stages = Append(@, "compare_texts")]
       IN  IF call.pc = "raised"
           THEN route' = [route EXCEPT ![r] = [staged EXCEPT
                    !.pending = OtherException("IndexError",
                                               "pop from empty list"),
                    !.pc = "except"]]
           ELSE route' = [route EXCEPT ![r] = [staged EXCEPT
                    !.comparison_result = call.comparison_result,
                    !.pc = "evaluate"]]
    /\ UNCHANGED << files, outcome, stores, route_rest >>

\* evaluation_result = evaluation_service.evaluate(...) and the return
\* statement; the numbers of the response are those of evaluation_result,
\* rounded.
EvaluateAndRespond(r) ==
    /\ route[r].pc = "evaluate"
    /\ MayRun(r)
    /\ route' = [route EXCEPT
           ![r].stages = Append(@, "evaluate"),
           ![r].evaluation_result =
               evaluate(route[r].comparison_result,
                        route[r].audio_duration.seconds,
                        Len(Split(route[r].normalized_transcript, 1, <<>>))),
           ![r].pending = Response,
           ![r].pc = "finally"]
    /\ UNCHANGED << files, outcome, stores, route_rest >>

\* except HTTPException: raise / except Exception as e: raise 500
ExceptClause(r) ==
    /\ route[r].pc = "except"
    /\ MayRun(r)
    /\ route' = [route EXCEPT
           ![r].pending =
               IF @.kind = "HTTPException" THEN @
               ELSE HTTPException(500,
                        "An error occurred while processing the audio: "
                        \o @.detail),
           ![r].pc = "finally"]
    /\ UNCHANGED << files, outcome, stores, route_rest >>

\* The finally clause. Reading temp_file_path before it was assigned
\* raises UnboundLocalError, which replaces the exception under way.
FinallyClause(r) ==
    /\ route[r].pc = "finally"
    /\ MayRun(r)
    /\ IF route[r].temp_file # "None" /\ route[r].temp_file_path = "unbound"
       THEN /\ outcome' = [outcome EXCEPT ![r] =
                   OtherException("UnboundLocalError",
                       "cannot access local variable 'temp_file_path' "
                       \o "where it is not associated with a value")]
            /\ UNCHANGED files
       ELSE LET unlinked ==
                    IF route[r].temp_file # "None"
                    THEN files \ {TempFile(r, route[r].temp_file_path)}
                    ELSE files
            IN  /\ files' =
                       IF /\ route[r].processed_audio_path # "unbound"
                          /\ route[r].processed_audio_path
                                # route[r].temp_file_path
                       THEN unlinked
                            \ {TempFile(r, route[r].processed_audio_path)}
                       ELSE unlinked
                /\ outcome' = [outcome EXCEPT ![r] = route[r].pending]
    /\ route' = [route EXCEPT ![r].pc = "done"]
    /\ UNCHANGED << stores, route_rest >>

NextRoute ==
    \E r \in Requests :
        \/ CheckFilename(r)
        \/ CheckFormat(r)
        \/ LookupChapter(r)
        \/ SaveUpload(r)
        \/ ReadUpload(r)
        \/ ProcessAudio(r)
        \/ GetDuration(r)
        \/ Transcribe(r)
        \/ NormalizeTexts(r)
        \/ CompareTexts(r)
        \/ EvaluateAndRespond(r)
        \/ ExceptClause(r)
        \/ FinallyClause(r)

SpecRoute == InitRoute /\ [][NextRoute]_vars

\* -------------------------------------- text_service.py: get_text_service
\* The module's _text_service_instance and the calls of get_text_service.
\* A TextService constructed is known by the number of its construction.
MaxServiceCalls == 3
ServiceThresholds == {0, 50, 80, 90, 100}
TextServiceObject(id, threshold) ==
    [none |-> FALSE, id |-> id, fuzzy_threshold |-> threshold]
\* The instances constructed by the calls made so far.
Constructed(returns) ==
    Cardinality({ returns[k].returned.id : k \in 1..Len(returns) })

get_text_service_every_call(instance, threshold, constructed) ==
    TextServiceObject(constructed + 1, threshold)

\* get_text_service(fuzzy_threshold): the value of _text_service_instance
\* when the call returns, which is the value returned.
get_text_service(instance, threshold, constructed) ==
    IF instance.none THEN TextServiceObject(constructed + 1, threshold)
    ELSE instance

InitService ==
    /\ text_service_instance = NoInstance
    /\ service_returns = <<>>
    /\ fuzzy_threshold = 80
    /\ suspicious_wpm_threshold = SuspiciousWpmThreshold
    /\ pc = "serving"
    /\ student_text = <<>>
    /\ reference_text = <<>>
    /\ use_fuzzy = TRUE
    /\ RequestIdle
    /\ FnIdle
    /\ NormIdle
    /\ CallsIdle
    /\ RouteIdle
    /\ ChapterIdle

GetTextService(threshold) ==
    /\ pc = "serving"
    /\ Len(service_returns) < MaxServiceCalls
    /\ text_service_instance' =
          get_text_service(text_service_instance, threshold,
                           Constructed(service_returns))
    /\ service_returns' =
          Append(service_returns,
                 [fuzzy_threshold |-> threshold,
                  returned |-> text_service_instance'])
    /\ UNCHANGED << inputs, pc, locals, comparison_result, order_accuracy,
                    evals, suspicious_wpm_threshold, fns, norms, calls, routes,
                    stores >>

NextService == \E threshold \in ServiceThresholds : GetTextService(threshold)

SpecService == InitService /\ [][NextService]_vars

\* ----------------------------------------------------------- properties
\* compare_texts has returned its dictionary.
Returned == pc \in {"returned", "ordered", "evaluated"}
Ordered == pc \in {"ordered", "evaluated"}
Evaluated == pc = "evaluated"

\* Occurrences of x in a list.
Count(x, list) == Cardinality({k \in 1..Len(list) : list[k] = x})
\* Every token occurs in sub at most as often as in super.
SubMultiset(sub, super) ==
    \A k \in 1..Len(sub) : Count(sub[k], sub) <= Count(sub[k], super)
SameMultiset(s, t) == SubMultiset(s, t) /\ SubMultiset(t, s)
\* The records of one kind among the match details.
DetailsOfType(details, type) ==
    SelectSeq(details, LAMBDA d : d.match_type = type)
IsHundred(r) == RatEq(r, Rat(100, 1))
InPercentRange(r) == RatLeq(Rat(0, 1), r) /\ RatLeq(r, Rat(100, 1))

\* C1: the result compare_texts has just returned has
\* matched_words <= min(total_student_words, total_reference_words).
ThmC1_MatchedBound ==
    pc = "returned" =>
        /\ comparison_result.total_student_words = Len(tokenize(student_text))
        /\ comparison_result.total_reference_words = Len(tokenize(reference_text))
        /\ comparison_result.matched_words
               <= IntMin(comparison_result.total_student_words,
                         comparison_result.total_reference_words)

\* A returned result that reaches the bound through a fuzzy match, with a
\* student word left over.
WitC1_BoundReached ==
    /\ pc = "returned"
    /\ comparison_result.fuzzy_matches # <<>>
    /\ comparison_result.matched_words = comparison_result.total_reference_words
    /\ comparison_result.total_student_words
           > comparison_result.total_reference_words

\* C2: the result just returned holds one match record per candidate
\* token, in candidate order; a record is exactly one of exact, fuzzy,
\* unmatched; len(exact_matches) + len(fuzzy_matches) = matched_words and
\* len(unmatched_student) = total_student_words - matched_words.
ThmC2_OneRecordPerToken ==
    pc = "returned" =>
        LET r == comparison_result
            toks == tokenize(student_text)
        IN  /\ Len(r.match_details) = r.total_student_words
            /\ Len(r.match_details) = Len(toks)
            /\ \A k \in 1..Len(r.match_details) :
                  LET d == r.match_details[k]
                  IN  /\ d.student_word = toks[k]
                      /\ d.match_type \in {"exact", "fuzzy", "None"}
                      /\ d.matched <=> d.match_type # "None"
            /\ Len(DetailsOfType(r.match_details, "exact")) = Len(r.exact_matches)
            /\ Len(DetailsOfType(r.match_details, "fuzzy")) = Len(r.fuzzy_matches)
            /\ Len(DetailsOfType(r.match_details, "None")) = Len(r.unmatched_student)
            /\ Len(r.exact_matches) + Len(r.fuzzy_matches) = r.matched_words
            /\ Len(r.unmatched_student) = r.total_student_words - r.matched_words

\* A returned result holding a fuzzy and an unmatched record.
WitC2_MixedRecords ==
    /\ pc = "returned"
    /\ comparison_result.fuzzy_matches # <<>>
    /\ comparison_result.unmatched_student # <<>>
    /\ Len(comparison_result.match_details) = 2

\* Reference words named by the exact and fuzzy records.
NamedReferenceWords(r) ==
    r.exact_matches
    \o [k \in 1..Len(r.fuzzy_matches) |-> r.fuzzy_matches[k][2]]

\* C3: every reference token is consumed by at most one match record: the
\* multiset of reference tokens is the multiset of reference words named by
\* the exact and fuzzy records plus unmatched_reference, every fuzzy record
\* naming the pool entry removed for it.
CexC3_ReferenceConsumedOnce ==
    Returned =>
        LET r == comparison_result
        IN  SameMultiset(tokenize(reference_text),
                         NamedReferenceWords(r) \o r.unmatched_reference)

\* C4: compare_texts never raises, and an empty candidate or reference
\* gives matched_words = 0.
CexC4_NeverRaises ==
    /\ pc # "raised"
    /\ (Returned /\ (tokenize(student_text) = <<>> \/ tokenize(reference_text) = <<>>))
           => comparison_result.matched_words = 0

\* C5: accuracy, completeness and order accuracy lie in [0,100] and
\* fluency_wpm >= 0.
ThmC5_Ranges ==
    /\ Ordered => InPercentRange(order_accuracy)
    /\ Evaluated =>
          /\ InPercentRange(evaluation_result.accuracy)
          /\ InPercentRange(evaluation_result.completeness)
          /\ RatLeq(Rat(0, 1), evaluation_result.fluency_wpm)

\* An evaluation with a negative duration, words counted and words matched.
WitC5_NegativeDuration ==
    /\ Evaluated
    /\ audio_duration.num < 0
    /\ word_count > 0
    /\ comparison_result.matched_words > 0
    /\ RatLt(Rat(0, 1), order_accuracy)

RECURSIVE Pick(_, _, _)
\* The subsequence of seq at the positions in S, from position k on.
Pick(seq, S, k) ==
    IF k > Len(seq) THEN <<>>
    ELSE IF k \in S THEN <<seq[k]>> \o Pick(seq, S, k + 1)
    ELSE Pick(seq, S, k + 1)

\* Lengths of the common subsequences of two sequences.
CommonLengths(s, t) ==
    { Cardinality(S) : S \in { S \in SUBSET (1..Len(s)) :
          \E T \in SUBSET (1..Len(t)) : Pick(s, S, 1) = Pick(t, T, 1) } }
TrueLcs(s, t) ==
    CHOOSE n \in CommonLengths(s, t) : \A k \in CommonLengths(s, t) : k <= n

\* C6: the value get_word_order_accuracy has just returned is
\* L / min(len) * 100 for the true longest common subsequence length L, and
\* 0 when a sequence is empty.
ThmC6_OrderAccuracyIsLcs ==
    pc = "ordered" =>
        LET s == tokenize(student_text)
            t == tokenize(reference_text)
        IN  IF s = <<>> \/ t = <<>>
            THEN order_accuracy = Rat(0, 1)
            ELSE /\ order_accuracy.den = IntMin(Len(s), Len(t))
                 /\ order_accuracy.num = 100 * TrueLcs(s, t)

\* Two sequences that agree on their first token only and are no
\* permutation of each other: the longest common subsequence has length 1.
WitC6_PartialOrder ==
    /\ pc = "ordered"
    /\ Len(student_tokens) = 2
    /\ Len(reference_tokens) = 2
    /\ student_tokens[1] = reference_tokens[1]
    /\ student_tokens[2] # reference_tokens[2]
    /\ ~SameMultiset(student_tokens, reference_tokens)
    /\ RatEq(order_accuracy, Rat(50, 1))

\* The conclusion of C7 for a candidate that is a sub-multiset of the
\* reference: all records exact, matched_words = len(candidate), accuracy
\* 100, completeness len(candidate) / len(reference) * 100; for a candidate
\* identical to the reference, completeness and order accuracy 100 and no
\* unmatched reference word.
AllExact ==
    LET r == comparison_result
        s == student_tokens
        t == reference_tokens
    IN  /\ \A k \in 1..Len(r.match_details) :
              /\ r.match_details[k].match_type = "exact"
              /\ r.match_details[k].reference_word = s[k]
        /\ r.fuzzy_matches = <<>>
        /\ r.unmatched_student = <<>>
        /\ r.matched_words = Len(s)
        /\ IsHundred(evaluation_result.accuracy)
        /\ evaluation_result.completeness.num * Len(t)
               = 100 * Len(s) * evaluation_result.completeness.den
        /\ s = t =>
              /\ IsHundred(evaluation_result.completeness)
              /\ IsHundred(order_accuracy)
              /\ r.unmatched_reference = <<>>

\* C7 as stated: for every candidate (the empty one included) that is a
\* sub-multiset of the reference, the conclusion above holds.
CexC7_SubMultisetAllExact ==
    (Evaluated /\ SubMultiset(student_tokens, reference_tokens))
        => AllExact

\* C7 amended: for every non-empty candidate that is a sub-multiset of the
\* reference, the conclusion above holds.
ThmC7_NonEmptySubMultisetAllExact ==
    (/\ Evaluated
     /\ student_tokens # <<>>
     /\ SubMultiset(student_tokens, reference_tokens))
        => AllExact

\* A one-word candidate found at the second place of a longer reference,
\* fuzzy matching enabled at threshold 0, evaluated.
WitC7_ShorterCandidateCovered ==
    /\ Evaluated
    /\ use_fuzzy
    /\ fuzzy_threshold = 0
    /\ Len(student_tokens) = 1
    /\ Len(reference_tokens) = 2
    /\ reference_tokens[1] # student_tokens[1]
    /\ reference_tokens[2] = student_tokens[1]
    /\ comparison_result.exact_matches = student_tokens
    /\ RatEq(evaluation_result.completeness, Rat(50, 1))

\* The conclusion of C8 for a candidate that is a permutation of the
\* reference: all reference words matched and accuracy 100; two distinct
\* tokens in swapped order give matched_words = 2 and order accuracy 50.
PermutationMatched ==
    LET r == comparison_result
        s == student_tokens
        t == reference_tokens
    IN  /\ r.matched_words = Len(t)
        /\ IsHundred(evaluation_result.accuracy)
        /\ RatLeq(order_accuracy, Rat(100, 1))
        /\ (Len(s) = 2 /\ s[1] # s[2] /\ t = << s[2], s[1] >>) =>
              /\ r.matched_words = 2
              /\ RatEq(order_accuracy, Rat(50, 1))

\* C8 as stated: for every candidate (the empty one included) that is a
\* permutation of the reference, the conclusion above holds.
CexC8_PermutationMatched ==
    (Evaluated /\ SameMultiset(student_tokens, reference_tokens))
        => PermutationMatched

\* C8 amended: for every non-empty candidate that is a permutation of the
\* reference, the conclusion above holds.
ThmC8_NonEmptyPermutationMatched ==
    (/\ Evaluated
     /\ student_tokens # <<>>
     /\ SameMultiset(student_tokens, reference_tokens))
        => PermutationMatched

\* Two distinct tokens read in swapped order: both matched, order accuracy
\* below 100.
WitC8_Swapped ==
    /\ Evaluated
    /\ Len(student_tokens) = 2
    /\ student_tokens[1] # student_tokens[2]
    /\ reference_tokens = << student_tokens[2], student_tokens[1] >>
    /\ comparison_result.matched_words = 2
    /\ RatLt(order_accuracy, Rat(100, 1))

\* value = min(100, part / whole * 100), and 0 when whole = 0.
IsCappedPercent(value, part, whole) ==
    IF whole = 0 THEN RatEq(value, Rat(0, 1))
    ELSE IF part <= whole THEN value.num * whole = 100 * part * value.den
    ELSE IsHundred(value)

\* C9: accuracy = min(100, matched_words / total_student_words * 100) and
\* completeness = min(100, matched_words / total_reference_words * 100), 0
\* for a zero denominator, for the counts of the comparison result.
ThmC9_AccuracyCompleteness ==
    Evaluated =>
        LET r == comparison_result
        IN  /\ IsCappedPercent(evaluation_result.accuracy, r.matched_words,
                               Len(student_tokens))
            /\ IsCappedPercent(evaluation_result.completeness, r.matched_words,
                               Len(reference_tokens))
            /\ evaluation_result.breakdown.matched_words = r.matched_words
            /\ evaluation_result.breakdown.total_student_words
                   = r.total_student_words
            /\ evaluation_result.breakdown.total_reference_words
                   = r.total_reference_words

\* An evaluation whose accuracy lies strictly between 0 and 100 and below
\* its completeness.
WitC9_PartialAccuracy ==
    /\ Evaluated
    /\ RatLt(Rat(0, 1), evaluation_result.accuracy)
    /\ RatLt(evaluation_result.accuracy, Rat(100, 1))
    /\ RatLt(evaluation_result.accuracy, evaluation_result.completeness)

\* C10: fluency_wpm = word_count / duration * 60 for duration > 0, and 0
\* for every word_count when duration <= 0.
ThmC10_Fluency ==
    Evaluated =>
        IF audio_duration.num > 0
        THEN evaluation_result.fluency_wpm.num * audio_duration.num
                 = 60 * word_count * audio_duration.den
                       * evaluation_result.fluency_wpm.den
        ELSE RatEq(evaluation_result.fluency_wpm, Rat(0, 1))

\* An evaluation of counted words over a zero duration.
WitC10_ZeroDuration ==
    /\ Evaluated
    /\ audio_duration.num = 0
    /\ word_count = MaxWordCount
    /\ RatEq(evaluation_result.fluency_wpm, Rat(0, 1))

\* The value a/b compared with the integer n.
RatGtInt(r, n) == r.num > n * r.den
RatGeqInt(r, n) == r.num >= n * r.den
DirectDetected == pc \in {"fn_detected", "fn_categorized", "fn_remarked"}
DirectCategorized == pc \in {"fn_categorized", "fn_remarked"}
DirectRemarked == pc = "fn_remarked"

\* C11: the suspicious flag is true exactly when fluency_wpm is strictly
\* greater than the configured threshold: a value equal to the threshold is
\* not flagged, 300 wpm with the default threshold 250 is flagged.
ThmC11_SuspiciousFlag ==
    /\ DirectDetected =>
          /\ fn_suspicious <=> RatGtInt(fn_fluency, suspicious_wpm_threshold)
          /\ RatEq(fn_fluency, Rat(suspicious_wpm_threshold, 1)) => ~fn_suspicious
          /\ (RatEq(fn_fluency, Rat(300, 1)) /\ suspicious_wpm_threshold = 250)
                 => fn_suspicious
    /\ Evaluated =>
          /\ evaluation_result.suspicious
                 <=> RatGtInt(evaluation_result.fluency_wpm,
                              suspicious_wpm_threshold)
          /\ (word_count = 300 /\ audio_duration = Rat(60, 1)
                 /\ suspicious_wpm_threshold = 250)
                 => evaluation_result.suspicious

\* detect_suspicious_reading called on the default threshold itself.
WitC11_AtThreshold ==
    /\ pc = "fn_detected"
    /\ suspicious_wpm_threshold = 250
    /\ RatEq(fn_fluency, Rat(250, 1))
    /\ ~fn_suspicious

IsFinite(r) == r.den # 0
RatInInterval(r, low, high) == RatGeqInt(r, low) /\ ~RatGeqInt(r, high)

\* category is the one interval of the half-open table that holds f.
HalfOpenCategory(f, category) ==
    /\ category \in {"very_slow", "slow", "normal", "fast", "very_fast",
                      "suspicious"}
    /\ category = "very_slow" <=> RatInInterval(f, 0, 60)
    /\ category = "slow" <=> RatInInterval(f, 60, 100)
    /\ category = "normal" <=> RatInInterval(f, 100, 160)
    /\ category = "fast" <=> RatInInterval(f, 160, 200)
    /\ category = "very_fast" <=> RatInInterval(f, 200, 250)
    /\ category = "suspicious" <=> RatGeqInt(f, 250)

\* C12 as stated: categorize_speed maps every fluency value >= 0 to
\* exactly one category of the half-open table, never to 'unknown'.
CexC12_EveryValueCategorized ==
    (DirectCategorized /\ RatGeqInt(fn_fluency, 0))
        => HalfOpenCategory(fn_fluency, fn_category)

\* C12 amended: categorize_speed maps every finite fluency value >= 0 to
\* exactly one category of the half-open table, and every fluency value
\* evaluate computes from a non-negative word count and a duration whose
\* quotient does not overflow is categorized so; infinity maps to 'unknown'.
ThmC12_FiniteValueCategorized ==
    /\ (DirectCategorized /\ RatGeqInt(fn_fluency, 0) /\ IsFinite(fn_fluency))
           => HalfOpenCategory(fn_fluency, fn_category)
    /\ (DirectCategorized /\ ~IsFinite(fn_fluency)) => fn_category = "unknown"
    /\ (Evaluated /\ word_count >= 0) =>
           /\ IsFinite(evaluation_result.fluency_wpm)
           /\ HalfOpenCategory(evaluation_result.fluency_wpm,
                   evaluation_result.breakdown.reading_speed_category)

\* An evaluation whose fluency is the lower end of an interval.
WitC12_LowerEnd ==
    /\ Evaluated
    /\ word_count = 160
    /\ RatEq(evaluation_result.fluency_wpm, Rat(160, 1))
    /\ evaluation_result.breakdown.reading_speed_category = "fast"

\* The fixed remark strings, by the thresholds the specification states.
AccuracyRemarkTexts ==
    << "Excellent accuracy! Words are pronounced correctly.",
       "Good reading performance.",
       "Average performance. Practice pronunciation.",
       "Needs improvement. Focus on reading clearly.",
       "Significant improvement needed. Practice reading aloud." >>
CompletenessRemarkTexts ==
    << "Only partial text was read.",
       "Most of the text was covered.",
       "Good coverage of the reference text." >>
SpeedRemarkTexts ==
    [very_slow |-> "Reading pace is slow. Try to read more fluently.",
     slow |-> "Reading pace is slightly slow.",
     normal |-> "Reading pace is appropriate.",
     fast |-> "Good fluent reading pace!",
     very_fast |-> "Very fast reading. Ensure clarity isn't sacrificed for speed."]

ExpectedAccuracyRemark(accuracy) ==
    IF RatGeqInt(accuracy, 90) THEN AccuracyRemarkTexts[1]
    ELSE IF RatGeqInt(accuracy, 75) THEN AccuracyRemarkTexts[2]
    ELSE IF RatGeqInt(accuracy, 60) THEN AccuracyRemarkTexts[3]
    ELSE IF RatGeqInt(accuracy, 40) THEN AccuracyRemarkTexts[4]
    ELSE AccuracyRemarkTexts[5]
ExpectedCompletenessRemark(completeness) ==
    IF ~RatGeqInt(completeness, 50) THEN CompletenessRemarkTexts[1]
    ELSE IF ~RatGeqInt(completeness, 80) THEN CompletenessRemarkTexts[2]
    ELSE CompletenessRemarkTexts[3]
\* warning (only if suspicious), accuracy remark, completeness remark, speed
\* remark (none for the categories suspicious and unknown), single spaces
\* between them.
ExpectedRemarks(accuracy, completeness, category, is_suspicious) ==
    (IF is_suspicious THEN SuspiciousWarning \o " " ELSE "")
    \o ExpectedAccuracyRemark(accuracy)
    \o " " \o ExpectedCompletenessRemark(completeness)
    \o (IF category \in DOMAIN SpeedRemarkTexts
        THEN " " \o SpeedRemarkTexts[category] ELSE "")

\* C13: whenever the speed category of the fluency value is 'suspicious',
\* the remarks evaluate produces start with the warning and hold no speed
\* remark: they are the warning, an accuracy remark and a completeness
\* remark.
CexC13_SuspiciousCategoryWarned ==
    (Evaluated
     /\ evaluation_result.breakdown.reading_speed_category = "suspicious")
        => \E a \in 1..Len(AccuracyRemarkTexts),
              c \in 1..Len(CompletenessRemarkTexts) :
              evaluation_result.remarks
                  = SuspiciousWarning \o " " \o AccuracyRemarkTexts[a]
                        \o " " \o CompletenessRemarkTexts[c]

\* C14: generate_remarks joins, by single spaces and in this order, the
\* warning (only if suspicious), the one accuracy remark chosen by the
\* first of 90, 75, 60, 40 that accuracy reaches (else the fifth), the one
\* completeness remark chosen by < 50, < 80, >= 80, and the speed remark.
ThmC14_RemarksAssembly ==
    /\ DirectRemarked =>
          fn_remarks = ExpectedRemarks(Rat(fn_accuracy, 1),
                                       Rat(fn_completeness, 1),
                                       fn_category, fn_flag)
    /\ Evaluated =>
          evaluation_result.remarks
              = ExpectedRemarks(evaluation_result.accuracy,
                                evaluation_result.completeness,
                                evaluation_result.breakdown.reading_speed_category,
                                evaluation_result.suspicious)

\* All four parts present, accuracy and completeness at a threshold.
WitC14_FourParts ==
    /\ DirectRemarked
    /\ fn_flag
    /\ fn_accuracy = 75
    /\ fn_completeness = 50
    /\ fn_category = "normal"
    /\ fn_remarks = SuspiciousWarning \o " Good reading performance."
                        \o " Most of the text was covered."
                        \o " Reading pace is appropriate."

\* The band of the weighted score 0.6 * accuracy + 0.4 * completeness,
\* in exact arithmetic on tenths.
WeightedBand(accuracy, completeness) ==
    LET tenfold == 6 * accuracy + 4 * completeness
    IN  IF tenfold >= 900 THEN "A"
        ELSE IF tenfold >= 800 THEN "B"
        ELSE IF tenfold >= 700 THEN "C"
        ELSE IF tenfold >= 600 THEN "D"
        ELSE "F"
GradeRank == [F |-> 0, D |-> 1, C |-> 2, B |-> 3, A |-> 4]

\* C15: get_grade returns the band of 0.6 * accuracy + 0.4 * completeness
\* (A >= 90, B >= 80, C >= 70, D >= 60, else F), always one of A, B, C, D,
\* F, and no worse grade for a larger accuracy or a larger completeness.
CexC15_GradeBands ==
    pc = "graded" =>
        /\ fn_grade \in {"A", "B", "C", "D", "F"}
        /\ fn_grade = WeightedBand(fn_accuracy, fn_completeness)
        /\ \A more \in GradePercents :
              /\ more >= fn_accuracy =>
                    GradeRank[get_grade(more, fn_completeness)]
                        >= GradeRank[fn_grade]
              /\ more >= fn_completeness =>
                    GradeRank[get_grade(fn_accuracy, more)]
                        >= GradeRank[fn_grade]

Normalized == pc \in {"normalized", "renormalized", "raw_tokenized", "tokenized"}
Renormalized == pc \in {"renormalized", "raw_tokenized", "tokenized"}
Tokenized == pc = "tokenized"

\* C16: normalize(normalize(x)) = normalize(x) for every string x over
\* letters of both cases, punctuation, apostrophes and whitespace.
ThmC16_NormalizeIdempotent ==
    Renormalized => renormalized = normalized

\* An upper-case letter, a punctuation character and a letter: normalize
\* changes the text, and normalizing its output changes nothing.
WitC16_ChangedOnce ==
    /\ pc = "renormalized"
    /\ raw_text = << "B", ",", "a" >>
    /\ normalized = << "b", " ", "a" >>
    /\ renormalized = normalized

LettersAndApostrophes(text) ==
    SelectSeq(text, LAMBDA c : IsLetter(c) \/ c = "'")

\* C17: the output of normalize holds no upper-case letter, no punctuation
\* other than the apostrophe, no leading or trailing whitespace, no two
\* consecutive whitespace characters, and the letters (lower-cased) and
\* apostrophes of the input in their order; "" and None give "".
ThmC17_NormalizeShape ==
    Normalized =>
        /\ \A k \in 1..Len(normalized) :
              /\ ~IsUpper(normalized[k])
              /\ ~IsPunct(normalized[k])
              /\ k < Len(normalized) =>
                    ~(IsSpace(normalized[k]) /\ IsSpace(normalized[k + 1]))
        /\ normalized # <<>> =>
              /\ ~IsSpace(normalized[1])
              /\ ~IsSpace(normalized[Len(normalized)])
        /\ raw_text # None =>
              LettersAndApostrophes(normalized)
                  = LowerText(LettersAndApostrophes(raw_text))
        /\ raw_text \in {<<>>, None} => normalized = <<>>

\* Punctuation, an upper-case letter and an apostrophe.
WitC17_ApostropheKept ==
    /\ pc = "normalized"
    /\ raw_text = << ",", "B", "'" >>
    /\ normalized = << "b", "'" >>

RECURSIVE Flatten(_)
\* The characters of the tokens, one token after the other.
Flatten(tokens) ==
    IF tokens = <<>> THEN <<>> ELSE tokens[1] \o Flatten(Tail(tokens))
\* Positions where a maximal run of non-whitespace characters starts.
WordStarts(text) ==
    { k \in 1..Len(text) :
          ~IsSpace(text[k]) /\ (k = 1 \/ IsSpace(text[k - 1])) }

\* C18: no token tokenize returns is empty or holds whitespace, the tokens
\* are the maximal whitespace-free runs of the text in text order,
\* tokenize of "" and of None is the empty list, and the tokens of
\* normalize(x) joined by single spaces are normalize(x).
ThmC18_Tokenize ==
    Tokenized =>
        /\ \A k \in 1..Len(raw_tokens) :
              /\ raw_tokens[k] # <<>>
              /\ \A j \in 1..Len(raw_tokens[k]) : ~IsSpace(raw_tokens[k][j])
        /\ raw_text # None =>
              /\ Flatten(raw_tokens) = SelectSeq(raw_text, LAMBDA c : ~IsSpace(c))
              /\ Len(raw_tokens) = Cardinality(WordStarts(raw_text))
        /\ raw_text \in {<<>>, None} => raw_tokens = <<>>
        /\ Join(norm_tokens) = normalized

\* Two words kept apart by a tab: two tokens, and the normalized text is
\* its tokens joined by one space.
WitC18_TabSeparated ==
    /\ Tokenized
    /\ raw_text = << "a", "\t", "B" >>
    /\ raw_tokens = << <<"a">>, <<"B">> >>
    /\ norm_tokens = << <<"a">>, <<"b">> >>
    /\ normalized = << "a", " ", "b" >>

\* C19: of two requests interleaved step by step on the shared services,
\* each ends with the result it has when run alone; a step of one request
\* is determined by that request's own locals and leaves the other
\* request's pool and records as they are; no step changes
\* fuzzy_threshold or suspicious_wpm_threshold.
ThmC19_NoInterference ==
    /\ [](\A p \in DOMAIN calls :
             CallDone(calls[p]) =>
                 calls[p] = RunAlone(NewCall(calls[p].student_text,
                                             calls[p].reference_text)))
    /\ [][/\ fuzzy_threshold' = fuzzy_threshold
          /\ suspicious_wpm_threshold' = suspicious_wpm_threshold
          /\ \A p \in DOMAIN calls :
                calls'[p] # calls[p] =>
                    /\ calls'[p] = CallNext(calls[p])
                    /\ \A q \in DOMAIN calls \ {p} : calls'[q] = calls[q]]_vars

\* Both requests are inside the loop on the same reference text; the
\* first has consumed a pool entry, the second has its pool whole.
WitC19_BothInLoop ==
    /\ calls # <<>>
    /\ calls[1].pc = "loop"
    /\ calls[2].pc = "loop"
    /\ calls[1].reference_text = calls[2].reference_text
    /\ calls[1].loop_i = 1
    /\ calls[1].fuzzy_matches # <<>>
    /\ calls[1].reference_remaining = <<>>
    /\ calls[2].loop_i = 0
    /\ calls[2].reference_remaining = calls[2].reference_tokens
    /\ calls[2].reference_remaining # <<>>

\* One iteration of the loop with the candidate token in the pool, and one
\* that emits a fuzzy or unmatched record.
ExactHasPriority ==
    InLoop =>
        LET word == student_word
            pool == reference_remaining
            emitted == Len(match_details') = Len(match_details) + 1
            record == match_details'[Len(match_details')]
        IN  /\ Count(word, pool) > 0 =>
                  /\ pc' = "loop"
                  /\ loop_i' = loop_i + 1
                  /\ emitted
                  /\ record = [student_word |-> word, matched |-> TRUE,
                               match_type |-> "exact", reference_word |-> word,
                               score |-> Rat(100, 1)]
                  /\ Len(reference_remaining') = Len(pool) - 1
                  /\ Count(word, reference_remaining') = Count(word, pool) - 1
                  /\ SubMultiset(reference_remaining', pool)
                  /\ exact_matches' = Append(exact_matches, word)
                  /\ fuzzy_matches' = fuzzy_matches
                  /\ matched_words' = matched_words + 1
            /\ (emitted /\ record.match_type \in {"fuzzy", "None"}) =>
                  Count(word, pool) = 0

\* C20: at each step of the candidate pass, a candidate token that is in
\* the pool removes exactly one occurrence of itself and gets an exact
\* record with score 100 and itself as reference word, and nothing is
\* added to the fuzzy matches; a fuzzy or unmatched record is emitted only
\* when no identical token is in the pool.
ThmC20_ExactPriority == [][ExactHasPriority]_vars

\* The candidate token is matched exactly with the second pool entry
\* although the first one scores above the fuzzy threshold.
WitC20_ExactOverFuzzy ==
    /\ pc = "loop"
    /\ loop_i = 1
    /\ use_fuzzy
    /\ fuzzy_threshold = 50
    /\ student_tokens[1] = <<"a">>
    /\ reference_tokens = << <<"a", "b">>, <<"a">> >>
    /\ reference_remaining = << <<"a", "b">> >>
    /\ match_details[1].match_type = "exact"

\* The scores of the candidate token against the pool entries, and the
\* entry the fuzzy step is to select: a maximal score, lowest index first.
PoolScores(word, pool) == [k \in 1..Len(pool) |-> fuzz_ratio(word, pool[k])]
IsSelected(word, pool, k) ==
    LET scores == PoolScores(word, pool)
    IN  /\ \A j \in 1..Len(pool) : RatLeq(scores[j], scores[k])
        /\ \A j \in 1..(k - 1) : RatLt(scores[j], scores[k])
WithoutEntry(pool, k) == SubSeq(pool, 1, k - 1) \o SubSeq(pool, k + 1, Len(pool))

\* One iteration of the loop with no identical token in the pool and fuzzy
\* matching on.
FuzzySelects ==
    (InLoop /\ use_fuzzy /\ Count(student_word, reference_remaining) = 0) =>
        LET word == student_word
            pool == reference_remaining
            scores == PoolScores(word, pool)
            accepted == \E k \in 1..Len(pool) :
                            /\ IsSelected(word, pool, k)
                            /\ RatGeqInt(scores[k], fuzzy_threshold)
            record == match_details'[Len(match_details')]
        IN  /\ pc' = "loop"
            /\ loop_i' = loop_i + 1
            /\ Len(match_details') = Len(match_details) + 1
            /\ IF accepted
               THEN LET k == CHOOSE k \in 1..Len(pool) : IsSelected(word, pool, k)
                    IN  /\ reference_remaining' = WithoutEntry(pool, k)
                        /\ fuzzy_matches' =
                               Append(fuzzy_matches, << word, pool[k], scores[k] >>)
                        /\ matched_words' = matched_words + 1
                        /\ record = [student_word |-> word, matched |-> TRUE,
                                     match_type |-> "fuzzy",
                                     reference_word |-> pool[k],
                                     score |-> scores[k]]
               ELSE /\ reference_remaining' = pool
                    /\ fuzzy_matches' = fuzzy_matches
                    /\ matched_words' = matched_words
                    /\ record.match_type = "None"

\* C21: with no identical token in the pool and fuzzy matching on, the
\* step selects the pool entry of maximal score, the lowest index among
\* ties, accepts it exactly when that score reaches fuzzy_threshold, and on
\* acceptance removes that entry and records (candidate, entry, score).
CexC21_FuzzySelection == [][FuzzySelects]_vars

RECURSIVE IsSubsequence(_, _)
\* sub is seq with some entries left out, the others in their order.
IsSubsequence(sub, seq) ==
    IF sub = <<>> THEN TRUE
    ELSE IF seq = <<>> THEN FALSE
    ELSE IF sub[1] = seq[1] THEN IsSubsequence(Tail(sub), Tail(seq))
    ELSE IsSubsequence(sub, Tail(seq))

\* The pool while the loop runs and in the dictionary returned.
PoolAccount ==
    /\ pc = "loop" =>
          /\ reference_tokens = tokenize(reference_text)
          /\ Len(reference_remaining) = Len(reference_tokens) - matched_words
          /\ IsSubsequence(reference_remaining, reference_tokens)
          /\ loop_i = 0 => reference_remaining = reference_tokens
    /\ Returned =>
          /\ comparison_result.total_reference_words = Len(tokenize(reference_text))
          /\ Len(comparison_result.unmatched_reference) =
                 comparison_result.total_reference_words
                 - comparison_result.matched_words
          /\ IsSubsequence(comparison_result.unmatched_reference,
                           tokenize(reference_text))

\* One iteration of the loop: what the record emitted says about the pool.
PoolStep ==
    InLoop =>
        LET emitted == Len(match_details') = Len(match_details) + 1
            record == match_details'[Len(match_details')]
        IN  /\ reference_tokens' = reference_tokens
            /\ Len(reference_remaining') <= Len(reference_remaining)
            /\ IsSubsequence(reference_remaining', reference_remaining)
            /\ emitted =>
                  IF record.match_type \in {"exact", "fuzzy"}
                  THEN /\ Len(reference_remaining') = Len(reference_remaining) - 1
                       /\ matched_words' = matched_words + 1
                  ELSE /\ reference_remaining' = reference_remaining
                       /\ matched_words' = matched_words

\* C22: the pool starts as the reference tokens, which are never changed,
\* loses exactly one entry at each step that emits an exact or fuzzy
\* record, is unchanged at each step that emits an unmatched record and
\* never grows; so len(pool) = total_reference_words - matches so far, and
\* unmatched_reference is a subsequence of the reference tokens.
ThmC22_PoolShrinks == [](PoolAccount) /\ [][PoolStep]_vars

\* A fuzzy match has taken the second reference token and an unmatched
\* record has left the pool as it was.
WitC22_SecondEntryTaken ==
    /\ pc = "loop"
    /\ loop_i = 2
    /\ match_details[1].match_type = "fuzzy"
    /\ match_details[2].match_type = "None"
    /\ Len(reference_tokens) = 2
    /\ reference_tokens[1] # reference_tokens[2]
    /\ reference_remaining = << reference_tokens[1] >>

IsPrefix(s, t) == Len(s) <= Len(t) /\ SubSeq(t, 1, Len(s)) = s

\* What any step leaves of the decisions taken so far.
NoRevisit ==
    pc \in {"loop", "returned", "ordered"} =>
        /\ IsPrefix(match_details, match_details')
        /\ IsPrefix(exact_matches, exact_matches')
        /\ IsPrefix(fuzzy_matches, fuzzy_matches')
        /\ IsPrefix(unmatched_student, unmatched_student')
        /\ matched_words' >= matched_words
        /\ SubMultiset(reference_remaining', reference_remaining)
        /\ InLoop =>
              LET record == match_details'[Len(match_details')]
              IN  (/\ Len(match_details') = Len(match_details) + 1
                   /\ Count(student_word, reference_remaining) = 0)
                      => record.match_type \in {"fuzzy", "None"}

\* The records returned are the records emitted, one per candidate token.
RecordsKept ==
    Returned =>
        /\ comparison_result.match_details = match_details
        /\ comparison_result.exact_matches = exact_matches
        /\ comparison_result.fuzzy_matches = fuzzy_matches
        /\ comparison_result.unmatched_student = unmatched_student
        /\ comparison_result.unmatched_reference = reference_remaining

\* C23: once the record of a candidate token is emitted no later step
\* changes it or returns its reference token to the pool; a later candidate
\* token equal to a reference token already consumed is recorded against
\* what remains, as a fuzzy match or as unmatched.
ThmC23_NoBacktracking == [](RecordsKept) /\ [][NoRevisit]_vars

\* A fuzzy match has consumed the reference token the second candidate
\* token equals, and the second token is recorded as unmatched.
WitC23_ExactBlocked ==
    /\ Returned
    /\ Len(match_details) = 2
    /\ match_details[1].match_type = "fuzzy"
    /\ match_details[1].reference_word = student_tokens[2]
    /\ Count(student_tokens[2], reference_tokens) = 1
    /\ match_details[2].match_type = "None"
    /\ comparison_result.matched_words = 1

RECURSIVE SumOfMin(_, _, _)
\* The sum over the tokens t of S of min(count of t in s, count of t in r).
SumOfMin(S, s, r) ==
    IF S = {} THEN 0
    ELSE LET t == CHOOSE t \in S : TRUE
         IN  IntMin(Count(t, s), Count(t, r)) + SumOfMin(S \ {t}, s, r)
MultisetIntersectionSize(s, r) ==
    SumOfMin({s[k] : k \in 1..Len(s)}, s, r)

\* C25: with use_fuzzy false no fuzzy record is produced, and matched_words
\* is the size of the multiset intersection of the candidate and reference
\* tokens, whatever the order of either sequence.
ThmC25_ExactOnly ==
    (pc = "returned" /\ ~use_fuzzy) =>
        LET r == comparison_result
        IN  /\ r.fuzzy_matches = <<>>
            /\ \A k \in 1..Len(r.match_details) :
                  r.match_details[k].match_type # "fuzzy"
            /\ r.matched_words =
                   MultisetIntersectionSize(tokenize(student_text),
                                            tokenize(reference_text))
            /\ r.matched_words = Len(r.exact_matches)

\* The candidate says a token twice that the reference holds once, and the
\* other reference token would pass as a fuzzy match.
WitC25_RepeatedToken ==
    /\ pc = "returned"
    /\ ~use_fuzzy
    /\ fuzzy_threshold = 50
    /\ student_tokens = << <<"a">>, <<"a">> >>
    /\ reference_tokens = << <<"a", "b">>, <<"a">> >>
    /\ comparison_result.matched_words = 1
    /\ comparison_result.unmatched_student = << <<"a">> >>

\* C26: for the same candidate and reference and a fuzzy_threshold in
\* 1..100, matched_words with use_fuzzy true is at least matched_words with
\* use_fuzzy false.
ThmC26_FuzzyNeverLowers ==
    (/\ pc = "paired"
     /\ fuzzy_threshold \in 1..100
     /\ calls[1].pc \in {"returned", "evaluated"}
     /\ calls[2].pc \in {"returned", "evaluated"})
        => /\ calls[1].use_fuzzy /\ ~calls[2].use_fuzzy
           /\ calls[1].student_text = calls[2].student_text
           /\ calls[1].reference_text = calls[2].reference_text
           /\ calls[1].comparison_result.matched_words
                  >= calls[2].comparison_result.matched_words

\* With fuzzy matching the first candidate token takes the reference token
\* the second one equals, which the run without fuzzy matching matches
\* exactly; the second reference token goes to the third candidate token
\* in both runs.
WitC26_ExactTaken ==
    /\ pc = "paired"
    /\ calls[1].pc = "evaluated"
    /\ calls[2].pc = "evaluated"
    /\ Len(calls[1].student_tokens) = 3
    /\ calls[1].match_details[1].match_type = "fuzzy"
    /\ calls[1].match_details[1].reference_word = calls[1].student_tokens[2]
    /\ calls[1].match_details[2].match_type = "None"
    /\ calls[2].match_details[1].match_type = "None"
    /\ calls[2].match_details[2].match_type = "exact"
    /\ calls[1].match_details[3].match_type = "exact"
    /\ calls[2].match_details[3].match_type = "exact"
    /\ calls[1].comparison_result.matched_words = 2
    /\ calls[2].comparison_result.matched_words = 2

\* The stages of assess_audio in the order of the handler's text.
RouteStages ==
    << "process_audio", "get_duration", "transcribe", "normalize", "normalize",
       "compare_texts", "evaluate" >>
Staged(r, name) ==
    \E k \in 1..Len(route[r].stages) : route[r].stages[k] = name
CoreInvoked(r) ==
    Staged(r, "normalize") \/ Staged(r, "compare_texts") \/ Staged(r, "evaluate")
RouteDone(r) == route[r].pc = "done"

\* The checks of the handler, on the upload, on the chapter store and on
\* what the environment returned.
FilenameGiven(r) == route_in[r].filename # None
FormatSupported(r) ==
    /\ FilenameGiven(r)
    /\ FilenameLower(SplitExt(route_in[r].filename)) \in SupportedExtensions
ChapterFound(r) ==
    /\ ~chapters_cache.none
    /\ route_in[r].chapter_id \in Keys(chapters_cache.chapters)
UploadNonEmpty(r) == route_in[r].content # ""
DurationPassed(r) ==
    /\ Staged(r, "get_duration")
    /\ ~route[r].audio_duration.none
    /\ RatLeq(Rat(1, 2), route[r].audio_duration.seconds)
TranscriptPassed(r) ==
    /\ Staged(r, "transcribe")
    /\ route[r].transcript # <<>>
    /\ \E k \in 1..Len(route[r].transcript) : ~IsSpace(route[r].transcript[k])

\* The status of the answer to the request. An exception other than
\* HTTPException that leaves the handler is answered by the server with
\* status 500.
HttpStatus(o) ==
    IF o.kind = "HTTPException" THEN o.status_code
    ELSE IF o.kind = "response" THEN 200
    ELSE 500

\* C24: speech-to-text runs only after the format check, the chapter
\* lookup, the non-empty-upload check and the duration check have passed;
\* normalize, compare_texts and evaluate run only after the duration check
\* and the non-empty-transcript check have passed; a request that fails a
\* check ends with an HTTP error status and runs no later stage.
ThmC24_ChecksBeforeStages ==
    \A r \in Requests :
        route[r].pc # "idle" =>
            /\ IsPrefix(route[r].stages, RouteStages)
            /\ Staged(r, "transcribe") =>
                  /\ FormatSupported(r) /\ ChapterFound(r)
                  /\ UploadNonEmpty(r) /\ DurationPassed(r)
            /\ CoreInvoked(r) => DurationPassed(r) /\ TranscriptPassed(r)
            /\ RouteDone(r) =>
                  /\ ~(FormatSupported(r) /\ ChapterFound(r)
                       /\ UploadNonEmpty(r)) =>
                        HttpStatus(outcome[r]) >= 400 /\ route[r].stages = <<>>
                  /\ (Staged(r, "get_duration") /\ ~DurationPassed(r)) =>
                        /\ HttpStatus(outcome[r]) >= 400
                        /\ route[r].stages = << "process_audio", "get_duration" >>
                  /\ (Staged(r, "transcribe") /\ ~TranscriptPassed(r)) =>
                        /\ HttpStatus(outcome[r]) >= 400
                        /\ route[r].stages =
                              << "process_audio", "get_duration", "transcribe" >>
                  /\ outcome[r].kind = "response" =>
                        /\ route[r].stages = RouteStages
                        /\ FormatSupported(r) /\ ChapterFound(r)
                        /\ UploadNonEmpty(r)

\* A request whose audio lasts exactly half a second is answered with an
\* evaluation, having waited for its upload while the other request was
\* answered.
WitC24_HalfSecondEvaluated ==
    /\ RouteDone(1)
    /\ outcome[1].kind = "response"
    /\ route[1].audio_duration = Seconds(Rat(1, 2))
    /\ route[1].stages = RouteStages
    /\ route[1].comparison_result.matched_words = 1
    /\ outcome[2].kind = "response"

\* C27: an upload of zero bytes is answered with the HTTP 400 error
\* 'Uploaded audio file is empty': the HTTPException of the empty-content
\* check is the outcome of the request after the except and finally
\* clauses have run.
CexC27_EmptyUploadIs400 ==
    \A r \in Requests :
        (/\ RouteDone(r)
         /\ route[r].pending = HTTPException(400, "Uploaded audio file is empty"))
            => outcome[r] = HTTPException(400, "Uploaded audio file is empty")

\* C28: on every exit path of assess_audio that created the temporary
\* upload file, neither the temporary upload file nor a distinct processed
\* audio file exists when the handler finishes.
CexC28_TemporaryFilesRemoved ==
    \A r \in Requests :
        (RouteDone(r) /\ route[r].temp_file = "file") =>
            \A f \in files : f.request # r

\* C29: after any sequence of add_chapter, update_chapter, delete_chapter
\* and reload_chapters calls, including calls whose file write fails, the
\* chapters the cache holds are the chapters stored in the file.
CexC29_CacheEqualsFile ==
    ~chapters_cache.none =>
        /\ chapters_file.state = "valid"
        /\ DictEq(chapters_cache.chapters, chapters_file.chapters)

\* C30: every get_text_service call returns the one TextService the first
\* call constructed, and its fuzzy threshold is the first call's argument:
\* the threshold passed on a later call is ignored.
ThmC30_FirstCallDecides ==
    \A k \in 1..Len(service_returns) :
        /\ service_returns[k].returned = service_returns[1].returned
        /\ service_returns[k].returned.id = 1
        /\ service_returns[k].returned.fuzzy_threshold =
              service_returns[1].fuzzy_threshold
        /\ text_service_instance = service_returns[1].returned

\* A second and a third call each pass a threshold of their own and get
\* the instance of the first call, with its threshold 80.
WitC30_LaterThresholdIgnored ==
    /\ Len(service_returns) = 3
    /\ service_returns[1].fuzzy_threshold = 80
    /\ service_returns[2].fuzzy_threshold = 50
    /\ service_returns[3].fuzzy_threshold = 100
    /\ service_returns[3].returned = TextServiceObject(1, 80)
    /\ text_service_instance.fuzzy_threshold = 80

====
